---------------------------- MODULE Spec2Model ----------------------------
(***************************************************************************)
(* Sentiment-driven portfolio pipeline (SalomeAc/Infraestructuras-proyecto) *)
(*                                                                         *)
(* Three stages of the analysis are modelled, each under a specification   *)
(* of its own that draws the stage's inputs from bounded sets:             *)
(*   SpecSent   SentimentProcessor / the sentiment block of api_simple     *)
(*   SpecFetch  download_stock_data_parallel / parallel_stock_download_... *)
(*   SpecPerf   analyze_portfolio / run_portfolio_analysis after sentiment *)
(*                                                                         *)
(* Representation.                                                         *)
(*   A timestamp is <<year, month, day>>.  A formatted date ('%Y-%m-%d')   *)
(*   is the number yyyymmdd, whose order is the order of the strings.      *)
(*   A float ratio is the exact fraction <<numerator, denominator>>.       *)
(*   A pandas rank (method 'average') may end in .5: rank2 is twice it.    *)
(*   A column is a function of the dates it has a value on: NaN is a date  *)
(*   of the index outside the column's domain.                             *)
(***************************************************************************)
EXTENDS Integers, Sequences, FiniteSets

\* ------------------------------------------------------------------ bounds
MaxRecords == 3
MaxTopN == 2
MaxStocks == 3
MaxBatchSize == 2

\* -------------------------------------------------------- program constants
LikesThreshold == 20
CommentsThreshold == 10
DefaultTopN == 5
DateBatchSize == 5
PoolWorkers == 4

\* --------------------------------------------------------------- utilities
RECURSIVE Gcd(_, _)
Gcd(a, b) == IF b = 0 THEN a ELSE Gcd(b, a % b)

Min(S) == CHOOSE x \in S : \A y \in S : x <= y

RECURSIVE SortedSeq(_)
SortedSeq(S) == IF S = {} THEN << >> ELSE <<Min(S)>> \o SortedSeq(S \ {Min(S)})

RECURSIVE KSubsets(_, _)
KSubsets(S, k) ==
    IF k = 0 THEN {{}}
    ELSE LET P == KSubsets(S, k - 1) IN P \cup {T \cup {x} : T \in P, x \in S}

Range(s) == {s[i] : i \in 1..Len(s)}

\* exact fractions standing for the floats of the engagement ratio
FracNorm(f) == LET g == Gcd(f[1], f[2]) IN <<f[1] \div g, f[2] \div g>>
FracAdd(f, g) ==
    LET c == Gcd(f[2], g[2])
    IN FracNorm(<<f[1] * (g[2] \div c) + g[1] * (f[2] \div c), (f[2] \div c) * g[2]>>)
FracDiv(f, n) == FracNorm(<<f[1], f[2] * n>>)
FracSub(f, g) ==
    LET c == Gcd(f[2], g[2])
    IN FracNorm(<<f[1] * (g[2] \div c) - g[1] * (f[2] \div c), (f[2] \div c) * g[2]>>)
FracMul(f, g) == FracNorm(<<f[1] * g[1], f[2] * g[2]>>)
FracGt(f, g) == f[1] * g[2] > g[1] * f[2]
FracEq(f, g) == f[1] * g[2] = g[1] * f[2]

\* ------------------------------------------------------------------- dates
IsLeap(y) == (y % 4 = 0 /\ y % 100 # 0) \/ y % 400 = 0

DaysInMonth(y, m) ==
    IF m = 2 THEN (IF IsLeap(y) THEN 29 ELSE 28)
    ELSE IF m \in {4, 6, 9, 11} THEN 30 ELSE 31

\* pd.to_datetime of a 'yyyy-mm-dd' string
ToDatetime(s) == <<s \div 10000, (s \div 100) % 100, s % 100>>

\* Timestamp.strftime('%Y-%m-%d')
Strftime(t) == t[1] * 10000 + t[2] * 100 + t[3]

\* the label pd.Grouper(freq='M') gives the bin of t: the month's last day
GrouperMonthEnd(t) == <<t[1], t[2], DaysInMonth(t[1], t[2])>>

\* mutant of DateOffset1: the label is not moved
DateOffset1_NoShift(t) == t

\* index + pd.DateOffset(1): one calendar day later
DateOffset1(t) ==
    IF t[3] < DaysInMonth(t[1], t[2]) THEN <<t[1], t[2], t[3] + 1>>
    ELSE IF t[2] < 12 THEN <<t[1], t[2] + 1, 1>>
    ELSE <<t[1] + 1, 1, 1>>

\* t + pd.offsets.MonthEnd(): the next month end strictly after t
MonthEndOffset(t) ==
    IF t[3] < DaysInMonth(t[1], t[2]) THEN <<t[1], t[2], DaysInMonth(t[1], t[2])>>
    ELSE IF t[2] < 12 THEN <<t[1], t[2] + 1, DaysInMonth(t[1], t[2] + 1)>>
    ELSE <<t[1] + 1, 1, 31>>

\* alphabetical order of the symbols (groupby sorts its keys)
SymbolOrder == <<"A", "ATVI", "B", "C", "MRO">>
SymbolIndex(s) == CHOOSE i \in 1..Len(SymbolOrder) : SymbolOrder[i] = s
SortedSymbols(S) ==
    LET idx == SortedSeq({SymbolIndex(s) : s \in S})
    IN [i \in 1..Len(idx) |-> SymbolOrder[idx[i]]]


\* ================================================================ sentiment
VARIABLES service, request, csv, sentiment_df, aggregated_df, filtered_df,
          portfolio_dates, spc

\* the price fetch
VARIABLES stocks_list, batch_size, batches, responses, futures, combined_df, fpc

fetchVars == <<stocks_list, batch_size, batches, responses, futures, combined_df, fpc>>

\* the analysis after the sentiment stage
VARIABLES unique_stocks, prices_df, returns_df, portfolio_df, result, apc

perfVars == <<unique_stocks, prices_df, returns_df, portfolio_df, result, apc>>

sentVars == <<request, csv, sentiment_df, aggregated_df, filtered_df,
              portfolio_dates, spc>>

\* the result cache of a service and the requests it is handling
VARIABLES hash_seed, cache, handlers, now, clear_pc, cache_size

cacheVars == <<hash_seed, cache, handlers, now, clear_pc, cache_size>>

\* the fan-out of calculate_portfolio_performance over the start dates
VARIABLES window_batches, portfolio_futures, cpc

composeVars == <<window_batches, portfolio_futures, cpc>>

\* the engine's sentiment_processor attribute, the actors created so far and
\* the calls of process_sentiment_data_sync in progress
VARIABLES sentiment_processor, processors, calls

engineVars == <<sentiment_processor, processors, calls>>

extraVars == <<cacheVars, composeVars, engineVars>>

vars == <<service, sentVars, fetchVars, perfVars, extraVars>>

notSent == <<fetchVars, perfVars, extraVars>>

\* a stage that is not the one under study stays as constructed
SentIdle ==
    /\ request = "None" /\ csv = {} /\ sentiment_df = "None"
    /\ aggregated_df = "None" /\ filtered_df = "None"
    /\ portfolio_dates = "None" /\ spc = "idle"

FetchIdle ==
    /\ stocks_list = << >> /\ batch_size = 0 /\ batches = << >>
    /\ responses = << >> /\ futures = << >> /\ combined_df = "None"
    /\ fpc = "idle"

PerfIdle ==
    /\ unique_stocks = << >> /\ prices_df = "None" /\ returns_df = "None"
    /\ portfolio_df = "None" /\ result = "None" /\ apc = "idle"

EmptyCache == [k \in {} |-> 0]

CacheIdle ==
    /\ hash_seed = 0 /\ cache = EmptyCache /\ handlers = << >> /\ now = 0
    /\ clear_pc = "idle" /\ cache_size = 0

ComposeIdle ==
    /\ window_batches = << >> /\ portfolio_futures = << >> /\ cpc = "idle"

EngineIdle ==
    /\ sentiment_processor = "None" /\ processors = << >> /\ calls = << >>

ExtraIdle == CacheIdle /\ ComposeIdle /\ EngineIdle

\* the rows a sentiment source may hold: 'date' strings, symbols, counts
CsvDates == {20210131, 20210210, 20211231}
CsvSymbols == {"A", "B"}
CsvCounts == {<<100, 30>>, <<50, 15>>, <<40, 20>>, <<20, 30>>, <<50, 10>>}

CsvRows ==
    {[date |-> d, symbol |-> s, twitterLikes |-> c[1], twitterComments |-> c[2]] :
        d \in CsvDates, s \in CsvSymbols, c \in CsvCounts}

\* mutant of load_sentiment_data: the thresholds are not strict
load_sentiment_data_AtLeast(rows) ==
    LET parsed == {[date |-> ToDatetime(r.date), symbol |-> r.symbol,
                    twitterLikes |-> r.twitterLikes,
                    twitterComments |-> r.twitterComments,
                    engagement_ratio |-> <<r.twitterComments, r.twitterLikes>>] :
                        r \in rows}
    IN {r \in parsed : r.twitterLikes >= LikesThreshold
                       /\ r.twitterComments >= CommentsThreshold}

\* pd.read_csv .. the engagement filter: date parsed, ratio added, rows dropped
load_sentiment_data(rows) ==
    LET parsed == {[date |-> ToDatetime(r.date), symbol |-> r.symbol,
                    twitterLikes |-> r.twitterLikes,
                    twitterComments |-> r.twitterComments,
                    engagement_ratio |-> <<r.twitterComments, r.twitterLikes>>] :
                        r \in rows}
    IN {r \in parsed : r.twitterLikes > LikesThreshold
                       /\ r.twitterComments > CommentsThreshold}

RECURSIVE FracSum(_)
FracSum(R) ==
    IF R = {} THEN <<0, 1>>
    ELSE LET r == CHOOSE x \in R : TRUE
         IN FracAdd(r.engagement_ratio, FracSum(R \ {r}))

\* .mean() of one (month, symbol) group
GroupMean(R) == FracDiv(FracSum(R), Cardinality(R))

\* x.rank(ascending=False), method 'average', doubled
Rank2(g, month) ==
    2 * Cardinality({h \in month : FracGt(h.engagement_ratio, g.engagement_ratio)})
    + Cardinality({h \in month : FracEq(h.engagement_ratio, g.engagement_ratio)}) + 1

\* groupby([Grouper(freq='M'), 'symbol']).mean(), then the rank per month
aggregate_sentiment(df) ==
    LET keys == {<<GrouperMonthEnd(r.date), r.symbol>> : r \in df}
        means == {[date |-> k[1], symbol |-> k[2],
                   engagement_ratio |->
                       GroupMean({r \in df : GrouperMonthEnd(r.date) = k[1]
                                             /\ r.symbol = k[2]})] : k \in keys}
    IN {[date |-> g.date, symbol |-> g.symbol,
         engagement_ratio |-> g.engagement_ratio,
         rank2 |-> Rank2(g, {h \in means : h.date = g.date})] : g \in means}

\* mutant of RankKept: rank <= top_n
RankKept_AtMost(rank2, top_n) == rank2 <= 2 * top_n

\* aggregated_df['rank'] < (top_n + 1)
RankKept(rank2, top_n) == rank2 < 2 * (top_n + 1)

\* the rows kept, their month label moved by DateOffset(1)
filter_top_stocks(agg, top_n) ==
    {[date |-> DateOffset1(g.date), symbol |-> g.symbol,
      engagement_ratio |-> g.engagement_ratio, rank2 |-> g.rank2] :
        g \in {h \in agg : RankKept(h.rank2, top_n)}}

\* the dict of formatted date -> symbols, keys in index order
get_portfolio_dates(filtered) ==
    LET dates == SortedSeq({Strftime(r.date) : r \in filtered})
    IN [i \in 1..Len(dates) |->
          [date |-> dates[i],
           stocks |-> SortedSymbols({r.symbol : r \in
                          {x \in filtered : Strftime(x.date) = dates[i]}})]]

\* the top_n that reaches filter_top_stocks: the Ray engine calls it without
\* an argument, the simplified service passes the request's value
ProcessTopN(svc, req) ==
    IF svc = "ray" THEN DefaultTopN ELSE req.top_n_stocks

SentInit ==
    /\ service \in {"ray", "simple"}
    /\ request \in [top_n_stocks : 1..MaxTopN]
    /\ csv \in KSubsets(CsvRows, MaxRecords)
    /\ sentiment_df = "None"
    /\ aggregated_df = "None"
    /\ filtered_df = "None"
    /\ portfolio_dates = "None"
    /\ spc = "start"
    /\ FetchIdle
    /\ PerfIdle
    /\ ExtraIdle

\* SentimentProcessor.load_sentiment_data, first remote call of the engine
LoadSentimentData ==
    /\ service = "ray" /\ spc = "start"
    /\ sentiment_df' = load_sentiment_data(csv)
    /\ spc' = "loaded"
    /\ UNCHANGED <<service, request, csv, aggregated_df, filtered_df, portfolio_dates, notSent>>

AggregateSentiment ==
    /\ service = "ray" /\ spc = "loaded"
    /\ aggregated_df' = aggregate_sentiment(sentiment_df)
    /\ spc' = "aggregated"
    /\ UNCHANGED <<service, request, csv, sentiment_df, filtered_df, portfolio_dates, notSent>>

FilterTopStocks ==
    /\ service = "ray" /\ spc = "aggregated"
    /\ filtered_df' = filter_top_stocks(aggregated_df, ProcessTopN(service, request))
    /\ spc' = "filtered"
    /\ UNCHANGED <<service, request, csv, sentiment_df, aggregated_df, portfolio_dates, notSent>>

GetPortfolioDates ==
    /\ service = "ray" /\ spc = "filtered"
    /\ portfolio_dates' = get_portfolio_dates(filtered_df)
    /\ spc' = "done"
    /\ UNCHANGED <<service, request, csv, sentiment_df, aggregated_df, filtered_df, notSent>>

\* the sentiment block of the simplified service's analyze_portfolio
SimpleSentiment ==
    /\ service = "simple" /\ spc = "start"
    /\ LET df == load_sentiment_data(csv)
           agg == aggregate_sentiment(df)
           fil == filter_top_stocks(agg, ProcessTopN(service, request))
       IN /\ sentiment_df' = df
          /\ aggregated_df' = agg
          /\ filtered_df' = fil
          /\ portfolio_dates' = get_portfolio_dates(fil)
    /\ spc' = "done"
    /\ UNCHANGED <<service, request, csv, notSent>>

SentNext ==
    \/ LoadSentimentData
    \/ AggregateSentiment
    \/ FilterTopStocks
    \/ GetPortfolioDates
    \/ SimpleSentiment

SpecSent == SentInit /\ [][SentNext]_vars

\* ---------------------------------------------- the ranking over three symbols
RankSymbols == {"A", "B", "C"}
RankDates == {20210131, 20210210}
RankCounts == {<<100, 30>>, <<50, 15>>, <<40, 20>>}

\* qualifying records only: every row reaches the ranking
RankRows ==
    {[date |-> d, symbol |-> s, twitterLikes |-> c[1], twitterComments |-> c[2]] :
        d \in RankDates, s \in RankSymbols, c \in RankCounts}

\* the simplified service, which passes the request's top_n_stocks to the filter
RankInit ==
    /\ service = "simple"
    /\ request \in [top_n_stocks : 1..MaxTopN]
    /\ csv \in KSubsets(RankRows, MaxRecords)
    /\ sentiment_df = "None"
    /\ aggregated_df = "None"
    /\ filtered_df = "None"
    /\ portfolio_dates = "None"
    /\ spc = "start"
    /\ FetchIdle
    /\ PerfIdle
    /\ ExtraIdle

SpecRank == RankInit /\ [][SimpleSentiment]_vars

\* ------------------------------------------------------------ claims C1-C3
MonthOf(t) == <<t[1], t[2]>>

\* the first day of the calendar month after month M, formatted
FirstDayOfNextMonth(M) ==
    IF M[2] = 12 THEN (M[1] + 1) * 10000 + 101 ELSE M[1] * 10000 + (M[2] + 1) * 100 + 1

\* the (month, symbol) pairs the filter that ran has kept
KeptPairs ==
    {<<MonthOf(g.date), g.symbol>> :
        g \in {h \in aggregated_df : RankKept(h.rank2, ProcessTopN(service, request))}}

CompositionKeys == {portfolio_dates[i].date : i \in 1..Len(portfolio_dates)}

StocksAt(key) ==
    UNION {Range(portfolio_dates[i].stocks) :
              i \in {j \in 1..Len(portfolio_dates) : portfolio_dates[j].date = key}}

\* C1: single-period lag.  Every symbol kept for month M is in the composition
\* under the first day of month M+1, and a symbol is under a key only when
\* it was kept for the month just before that key.
C1_SinglePeriodLag ==
    spc = "done" =>
        /\ \A p \in KeptPairs : p[2] \in StocksAt(FirstDayOfNextMonth(p[1]))
        /\ \A k \in CompositionKeys : \A x \in StocksAt(k) :
              \E p \in KeptPairs : p[2] = x /\ FirstDayOfNextMonth(p[1]) = k
        /\ \A k \in CompositionKeys : StocksAt(k) # {}

\* a December signal is held from 1 January of the next year, a January one
\* (taken on the month's last day) from 1 February
C1_Witness ==
    /\ spc = "done"
    /\ CompositionKeys = {20210201, 20220101}
    /\ \E r \in csv : r.date = 20210131

\* C2: the configured top-N is honoured.  A symbol of signal month M is in the
\* returned composition exactly when its rank within M is within the
\* request's top_n_stocks.
C2_TopNHonoured ==
    spc = "done" =>
        \A g \in aggregated_df :
            (g.symbol \in StocksAt(FirstDayOfNextMonth(MonthOf(g.date))))
                <=> RankKept(g.rank2, request.top_n_stocks)

\* the scenario of C3: month 1 (January 2021) holds exactly A(100, 30) and
\* B(50, 15), and the request asks for the top 1
C3_Scenario ==
    /\ request.top_n_stocks = 1
    /\ {[symbol |-> r.symbol, likes |-> r.twitterLikes, comments |-> r.twitterComments] :
           r \in {x \in csv : MonthOf(ToDatetime(x.date)) = <<2021, 1>>}}
       = {[symbol |-> "A", likes |-> 100, comments |-> 30],
          [symbol |-> "B", likes |-> 50, comments |-> 15]}
    /\ Cardinality({x \in csv : MonthOf(ToDatetime(x.date)) = <<2021, 1>>}) = 2

\* C3 as stated: the composition holds A only under month 2's first day
C3_SelectsAOnly ==
    (spc = "done" /\ C3_Scenario) =>
        /\ 20210201 \in CompositionKeys
        /\ StocksAt(20210201) = {"A"}

\* C3 amended: A and B have the same engagement ratio (30/100 = 15/50), they
\* tie, and both are held from month 2's first day
C3_SelectsTiedAAndB ==
    (spc = "done" /\ C3_Scenario) =>
        \E i \in 1..Len(portfolio_dates) :
            /\ portfolio_dates[i].date = 20210201
            /\ portfolio_dates[i].stocks = <<"A", "B">>
            /\ \A j \in 1..Len(portfolio_dates) :
                  portfolio_dates[j].date = 20210201 => j = i

\* the scenario with data in two months
C3_Witness ==
    /\ spc = "done"
    /\ C3_Scenario
    /\ \E r \in csv : r.date = 20210210 /\ r.twitterLikes > LikesThreshold
                      /\ r.twitterComments > CommentsThreshold

\* the aggregated rows of g's month
MonthRows(g) == {h \in aggregated_df : h.date = g.date}

\* 1 plus the number of distinct means of the month strictly greater than g's
DenseRank(g) ==
    1 + Cardinality({h.engagement_ratio :
                        h \in {x \in MonthRows(g) :
                                  FracGt(x.engagement_ratio, g.engagement_ratio)}})

\* C17: ranking is dense and descending within each month.  A symbol's rank
\* is 1 plus the number of distinct means of its month strictly greater than
\* its own, and the symbols with the highest mean of a month are kept for
\* every top-N of at least 1.
C17_DenseRankTopKept ==
    spc = "done" =>
        \A g \in aggregated_df :
            /\ g.rank2 = 2 * DenseRank(g)
            /\ DenseRank(g) = 1 =>
                  g.symbol \in StocksAt(FirstDayOfNextMonth(MonthOf(g.date)))


\* the records of the source for symbol s in month M above both thresholds
Qualifying(M, s) ==
    {r \in csv : /\ MonthOf(ToDatetime(r.date)) = M /\ r.symbol = s
                 /\ r.twitterLikes > 20 /\ r.twitterComments > 10}

\* comments / likes of each record of Q
RatiosOf(Q) == {[record |-> r, engagement_ratio |-> <<r.twitterComments, r.twitterLikes>>] : r \in Q}

SourcePairs == {<<MonthOf(ToDatetime(r.date)), r.symbol>> : r \in csv}

ScoresOf(M, s) == {g \in aggregated_df : MonthOf(g.date) = M /\ g.symbol = s}

\* C18: the threshold filter.  The mean engagement ratio of a (month, symbol)
\* pair is the mean over its records with likes > 20 and comments > 10 and
\* over no other record; a pair without such a record has no score and is in
\* no composition entry.
C18_ThresholdFilter ==
    spc = "done" =>
        /\ \A p \in SourcePairs :
              IF Qualifying(p[1], p[2]) = {}
              THEN /\ ScoresOf(p[1], p[2]) = {}
                   /\ p[2] \notin StocksAt(FirstDayOfNextMonth(p[1]))
              ELSE /\ Cardinality(ScoresOf(p[1], p[2])) = 1
                   /\ \A g \in ScoresOf(p[1], p[2]) :
                         FracEq(g.engagement_ratio,
                                GroupMean(RatiosOf(Qualifying(p[1], p[2]))))
        /\ \A g \in aggregated_df : <<MonthOf(g.date), g.symbol>> \in SourcePairs

\* a pair with a qualifying record and records at a threshold (likes = 20,
\* comments = 10) has the score of the qualifying record alone, and another
\* pair with only a record at a threshold has none
C18_Witness ==
    /\ spc = "done"
    /\ \E p \in SourcePairs :
          /\ Cardinality(Qualifying(p[1], p[2])) = 1
          /\ \E r \in csv : /\ MonthOf(ToDatetime(r.date)) = p[1] /\ r.symbol = p[2]
                            /\ r.twitterLikes = 20
          /\ ScoresOf(p[1], p[2]) # {}
    /\ \E p \in SourcePairs :
          /\ Qualifying(p[1], p[2]) = {}
          /\ \E r \in csv : /\ MonthOf(ToDatetime(r.date)) = p[1] /\ r.symbol = p[2]
                            /\ r.twitterComments = 10


\* ==================================================================== fetch
Universe == {"A", "B", "C", "MRO", "ATVI"}

\* the days the price source has quotes for
TradingDays == <<20210129, 20210201, 20210202, 20210301, 20210302>>

\* the adjusted closes a symbol may have on those days, 0 for no quote
QuotesFull == <<1, 2, 4, 2, 1>>
QuotesConst == <<2, 2, 2, 2, 2>>
QuotesLate == <<0, 0, 1, 2, 4>>
QuotesGap == <<1, 2, 0, 2, 4>>
QuotesSingle == <<0, 0, 0, 0, 2>>
QuotesNone == <<0, 0, 0, 0, 0>>

FetchQuotes == {QuotesFull, QuotesLate, QuotesNone}

RECURSIVE DistinctSeqs(_, _)
DistinctSeqs(S, k) ==
    IF k = 0 THEN {<< >>}
    ELSE LET P == DistinctSeqs(S, k - 1)
         IN P \cup {Append(pr[1], pr[2]) :
                        pr \in {c \in P \X S : c[2] \notin Range(c[1])}}

SeriesOf(quotes) ==
    [d \in {TradingDays[i] : i \in {j \in 1..Len(TradingDays) : quotes[j] # 0}} |->
        quotes[CHOOSE i \in 1..Len(TradingDays) : TradingDays[i] = d]]

\* pd.DataFrame()
EmptyDF == [columns |-> << >>, index |-> {}, data |-> << >>]

\* DataFrame.empty
IsEmpty(df) == Len(df.columns) = 0 \/ df.index = {}

\* what yf.download gives for the tickers of one request: a column per ticker,
\* a row per day on which any of them has a quote; or the download raises
YfDownload(tickers, response) ==
    IF response.kind = "raise" THEN [exc |-> TRUE]
    ELSE LET data == [t \in Range(tickers) |-> SeriesOf(response.quotes[t])]
         IN [exc |-> FALSE,
             df |-> [columns |-> tickers,
                     index |-> UNION {DOMAIN data[t] : t \in Range(tickers)},
                     data |-> data]]

\* mutant of download_stock_batch: no try/except around the download
download_stock_batch_NoCatch(tickers, response) == YfDownload(tickers, response)

\* download_stock_batch: the try/except turns a failure into an empty frame
download_stock_batch(tickers, response) ==
    LET r == YfDownload(tickers, response)
    IN IF r.exc THEN [exc |-> FALSE, df |-> EmptyDF] ELSE r

\* excluded = ['MRO', 'ATVI']; [s for s in stocks_list if s not in excluded]
Excluded == {"MRO", "ATVI"}
NotExcluded(s) == s \notin Excluded

\* the filter inside download_stock_data_parallel
EngineExclude(list) == SelectSeq(list, NotExcluded)

\* mutant of SimpleExclude: the caller passes its list as it is
SimpleExclude_None(list) == list

\* the filter analyze_portfolio of the simplified service applies before the call
SimpleExclude(list) == SelectSeq(list, NotExcluded)

\* mutant of MakeBatches: only the full batches, the shorter last one is lost
MakeBatches_NoTail(list, b) ==
    LET starts == SortedSeq({i \in 0..(Len(list) - 1) : i % b = 0 /\ i + b <= Len(list)})
    IN [k \in 1..Len(starts) |-> SubSeq(list, starts[k] + 1, starts[k] + b)]

\* [stocks_list[i:i + batch_size] for i in range(0, len(stocks_list), batch_size)]
MakeBatches(list, b) ==
    LET starts == SortedSeq({i \in 0..(Len(list) - 1) : i % b = 0})
    IN [k \in 1..Len(starts) |->
          SubSeq(list, starts[k] + 1,
                 IF starts[k] + b < Len(list) THEN starts[k] + b ELSE Len(list))]

RECURSIVE Flatten(_)
Flatten(ss) == IF ss = << >> THEN << >> ELSE Head(ss) \o Flatten(Tail(ss))

\* pd.concat(frames, axis=1): the columns side by side, the union of the rows
ConcatColumns(frames) ==
    LET cols == Flatten([i \in 1..Len(frames) |-> frames[i].columns])
    IN [columns |-> cols,
        index |-> UNION {frames[i].index : i \in 1..Len(frames)},
        data |-> [c \in Range(cols) |->
                    frames[CHOOSE i \in 1..Len(frames) :
                               c \in Range(frames[i].columns)].data[c]]]

IsValidOutcome(o) == ~o.exc /\ ~IsEmpty(o.df)
IsQuietOutcome(o) == ~o.exc

DfOf(o) == o.df

MapSeq(ss, Op(_)) == [i \in 1..Len(ss) |-> Op(ss[i])]

\* the end of download_stock_data_parallel: ray.get(futures) raises what a task
\* raised; the non-empty frames are concatenated, none gives an empty frame
EngineCombine(outcomes) ==
    IF \E i \in 1..Len(outcomes) : outcomes[i].exc THEN [exc |-> TRUE]
    ELSE LET valid == MapSeq(SelectSeq(outcomes, IsValidOutcome), DfOf)
         IN [exc |-> FALSE,
             df |-> IF valid # << >> THEN ConcatColumns(valid) ELSE EmptyDF]

\* the end of parallel_stock_download_simple: a future whose result() raises is
\* logged and skipped
SimpleCombine(outcomes) ==
    LET results == MapSeq(SelectSeq(outcomes, IsValidOutcome), DfOf)
    IN [exc |-> FALSE,
        df |-> IF results # << >> THEN ConcatColumns(results) ELSE EmptyDF]

Pending == [state |-> "pending"]

\* the tasks that have finished so far
DoneCount(futs) == Cardinality({i \in 1..Len(futs) : futs[i].state = "done"})

FetchInit ==
    /\ service \in {"ray", "simple"}
    /\ stocks_list \in DistinctSeqs(Universe, MaxStocks)
    /\ batch_size \in 1..MaxBatchSize
    /\ batches = << >>
    /\ responses = << >>
    /\ futures = << >>
    /\ combined_df = "None"
    /\ fpc = "start"
    /\ SentIdle
    /\ PerfIdle
    /\ ExtraIdle

notFetch == <<sentVars, perfVars, extraVars>>

\* download_stock_data_parallel up to the creation of the remote tasks
EngineDispatch ==
    /\ service = "ray" /\ fpc = "start"
    /\ batches' = MakeBatches(EngineExclude(stocks_list), batch_size)
    /\ futures' = [i \in 1..Len(batches') |-> Pending]
    /\ responses' = [i \in 1..Len(batches') |-> [kind |-> "none"]]
    /\ fpc' = "dispatched"
    /\ UNCHANGED <<service, stocks_list, batch_size, combined_df, notFetch>>

\* analyze_portfolio's exclusion, then parallel_stock_download_simple up to the
\* submission of the batches to the pool
SimpleDispatch ==
    /\ service = "simple" /\ fpc = "start"
    /\ batches' = MakeBatches(SimpleExclude(stocks_list), batch_size)
    /\ futures' = [i \in 1..Len(batches') |-> Pending]
    /\ responses' = [i \in 1..Len(batches') |-> [kind |-> "none"]]
    /\ fpc' = "dispatched"
    /\ UNCHANGED <<service, stocks_list, batch_size, combined_df, notFetch>>

\* the batches a worker is running
InFlight(futs) == {i \in 1..Len(futs) : futs[i].state = "running"}

\* a worker can take batch i.  ThreadPoolExecutor(max_workers=4) hands its
\* queue out in the order of submission to at most 4 threads; Ray starts a
\* task as soon as the cluster has a free CPU, no limit is set on the tasks
CanStart(svc, futs, i) ==
    IF svc = "simple"
    THEN /\ Cardinality(InFlight(futs)) < PoolWorkers
         /\ \A j \in 1..(i - 1) : futs[j].state # "pending"
    ELSE TRUE

\* a worker starts the download of batch i
BatchStarts(i) ==
    /\ fpc = "dispatched" /\ futures[i].state = "pending"
    /\ CanStart(service, futures, i)
    /\ futures' = [futures EXCEPT ![i] = [state |-> "running"]]
    /\ UNCHANGED <<service, stocks_list, batch_size, batches, responses, combined_df, fpc,
                   notFetch>>

\* one batch runs to its end; the source fails
BatchRaises(i) ==
    /\ fpc = "dispatched" /\ futures[i].state = "running"
    /\ LET response == [kind |-> "raise"]
       IN /\ responses' = [responses EXCEPT ![i] = response]
          /\ futures' = [futures EXCEPT ![i] =
                            [state |-> "done", finished |-> DoneCount(futures) + 1,
                             outcome |-> download_stock_batch(batches[i], response)]]
    /\ UNCHANGED <<service, stocks_list, batch_size, batches, combined_df, fpc, notFetch>>

\* one batch runs to its end; the source answers (possibly with no row at all)
BatchReturns(i) ==
    /\ fpc = "dispatched" /\ futures[i].state = "running"
    /\ \E quotes \in [Range(batches[i]) -> FetchQuotes] :
        LET response == [kind |-> "ok", quotes |-> quotes]
        IN /\ responses' = [responses EXCEPT ![i] = response]
           /\ futures' = [futures EXCEPT ![i] =
                             [state |-> "done", finished |-> DoneCount(futures) + 1,
                              outcome |-> download_stock_batch(batches[i], response)]]
    /\ UNCHANGED <<service, stocks_list, batch_size, batches, combined_df, fpc, notFetch>>

AllDone == \A i \in 1..Len(futures) : futures[i].state = "done"

\* mutant of GatherOrder: the results as the tasks finish (as_completed)
GatherOrder_AsCompleted(futs) ==
    [n \in 1..Len(futs) |-> CHOOSE i \in 1..Len(futs) : futs[i].finished = n]

\* ray.get(futures), and 'for future in futures' over the dict of submitted
\* batches: the results in the order of submission
GatherOrder(futs) == [n \in 1..Len(futs) |-> n]

Outcomes == [n \in 1..Len(futures) |-> futures[GatherOrder(futures)[n]].outcome]

\* ray.get(futures) and the merge
EngineGather ==
    /\ service = "ray" /\ fpc = "dispatched" /\ AllDone
    /\ LET r == EngineCombine(Outcomes)
       IN IF r.exc THEN /\ fpc' = "raised"
                        /\ UNCHANGED combined_df
          ELSE /\ fpc' = "returned"
               /\ combined_df' = r.df
    /\ UNCHANGED <<service, stocks_list, batch_size, batches, responses, futures, notFetch>>

\* the loop over future.result() and the merge
SimpleGather ==
    /\ service = "simple" /\ fpc = "dispatched" /\ AllDone
    /\ LET r == SimpleCombine(Outcomes)
       IN /\ fpc' = "returned"
          /\ combined_df' = r.df
    /\ UNCHANGED <<service, stocks_list, batch_size, batches, responses, futures, notFetch>>

FetchNext ==
    \/ EngineDispatch
    \/ SimpleDispatch
    \/ \E i \in 1..Len(futures) : BatchStarts(i)
    \/ \E i \in 1..Len(futures) : BatchRaises(i)
    \/ \E i \in 1..Len(futures) : BatchReturns(i)
    \/ EngineGather
    \/ SimpleGather

SpecFetch == FetchInit /\ [][FetchNext]_vars

\* ------------------------------------------------ a fetch of many batches
\* symbols enough for more batches than the pool has workers
MaxPoolStocks == 5

PoolSymbols == <<"A", "B", "C", "D", "E", "F", "G">>

\* a symbol list of the composition, one symbol per batch
PoolInit ==
    /\ service \in {"ray", "simple"}
    /\ stocks_list \in {SubSeq(PoolSymbols, 1, n) : n \in 1..MaxPoolStocks}
    /\ batch_size = 1
    /\ batches = << >>
    /\ responses = << >>
    /\ futures = << >>
    /\ combined_df = "None"
    /\ fpc = "start"
    /\ SentIdle
    /\ PerfIdle
    /\ ExtraIdle

SpecPool == PoolInit /\ [][FetchNext]_vars

\* -------------------------------------------------------- claims C4, C5, C7
IsListed(sym) == sym # "MRO" /\ sym # "ATVI"

\* the symbol list after the exclusion, as the claims speak of it
FilteredList == SelectSeq(stocks_list, IsListed)

\* ceil(n / b)
CeilDiv(n, b) == CHOOSE q \in 0..n : q * b >= n /\ (q = 0 \/ (q - 1) * b < n)

\* C4: batch partitioning.  ceil(n/b) batches are dispatched, each holds
\* between 1 and b symbols, and the batches laid end to end are the filtered
\* list: every symbol once, in list order.
C4_BatchPartition ==
    fpc \in {"dispatched", "returned", "raised"} =>
        /\ Len(batches) = CeilDiv(Len(FilteredList), batch_size)
        /\ Len(futures) = Len(batches)
        /\ \A i \in 1..Len(batches) :
              Len(batches[i]) >= 1 /\ Len(batches[i]) <= batch_size
        /\ Flatten(batches) = FilteredList

\* three symbols in batches of two: a full batch and a last batch of one
C4_Witness ==
    /\ fpc = "dispatched"
    /\ Len(FilteredList) = 3 /\ batch_size = 2
    /\ Len(batches) = 2 /\ Len(batches[1]) = 2 /\ Len(batches[2]) = 1

\* what the price source did for batch i: it answered with at least one row
BatchGaveData(i) ==
    /\ responses[i].kind = "ok"
    /\ \E t \in Range(batches[i]) : \E d \in 1..Len(TradingDays) :
          responses[i].quotes[t][d] # 0

DataBatches == SortedSeq({i \in 1..Len(batches) : BatchGaveData(i)})

\* C5: batch failure isolation.  Whatever batches fail or come back without
\* rows, the fetch returns, never raises, and the columns of the merged table
\* are those of the batches that came back with data; with no such batch the
\* table is empty.
C5_FailureIsolation ==
    /\ fpc # "raised"
    /\ (fpc = "dispatched" /\ AllDone) => ENABLED (EngineGather \/ SimpleGather)
    /\ fpc = "returned" =>
          /\ combined_df.columns =
                Flatten([k \in 1..Len(DataBatches) |-> batches[DataBatches[k]]])
          /\ (DataBatches = << >>) => (combined_df.columns = << >> /\ combined_df.index = {})
          /\ (DataBatches # << >>) => combined_df.index # {}

\* three batches: the source raised for one, gave no row for another, and the
\* merged table holds the third one's symbol alone
C5_Witness ==
    /\ fpc = "returned"
    /\ Len(batches) = 3
    /\ \E i \in 1..3 : responses[i].kind = "raise"
    /\ \E i \in 1..3 : responses[i].kind = "ok" /\ ~BatchGaveData(i)
    /\ Len(combined_df.columns) = 1

\* C7: exclusion pre-filter.  No dispatched batch holds MRO or ATVI, and
\* neither is a column of the merged price table.
C7_ExclusionPreFilter ==
    /\ \A i \in 1..Len(batches) : \A t \in Range(batches[i]) : IsListed(t)
    /\ fpc = "returned" => \A c \in Range(combined_df.columns) : IsListed(c)

\* the caller's list names MRO and the fetch still returned prices
C7_Witness ==
    /\ fpc = "returned"
    /\ \E i \in 1..Len(stocks_list) : stocks_list[i] = "MRO"
    /\ combined_df.index # {}
    /\ Len(combined_df.columns) > 0


\* ============================================================== performance
\* np.log of an adjusted close: the quote q stands for the price e^(q/10)
Log(q) == <<q, 10>>

Max(S) == CHOOSE x \in S : \A y \in S : x >= y

\* the row before d in the frame's index
PrevRow(df, d) == Max({e \in df.index : e < d})

\* np.log(adj_close).diff(): per column, defined on a row when the column has a
\* value on that row and on the row before it
LogDiff(df) ==
    [columns |-> df.columns,
     index |-> df.index,
     data |-> [c \in Range(df.columns) |->
                 [d \in {e \in DOMAIN df.data[c] :
                            e # Min(df.index) /\ PrevRow(df, e) \in DOMAIN df.data[c]} |->
                     FracSub(Log(df.data[c][d]), Log(df.data[c][PrevRow(df, d)]))]]]

\* DataFrame.dropna(): a row with a NaN in any column is dropped
DropNa(df) ==
    LET keep == {d \in df.index : \A c \in Range(df.columns) : d \in DOMAIN df.data[c]}
    IN [columns |-> df.columns,
        index |-> keep,
        data |-> [c \in Range(df.columns) |-> [d \in keep |-> df.data[c][d]]]]

\* calculate_returns_batch, and the same lines of the simplified service
calculate_returns(prices) == DropNa(LogDiff(prices))

\* a frame of portfolio returns: its columns and its rows in order
NoFrame == [columns |-> << >>, rows |-> << >>]

PortfolioConcat(a, b) ==
    [columns |-> IF a.columns = << >> THEN b.columns ELSE a.columns,
     rows |-> a.rows \o b.rows]

PortfolioIsEmpty(f) == f.columns = << >> \/ f.rows = << >>
PortfolioNotEmpty(f) == ~PortfolioIsEmpty(f)

RECURSIVE MeanOver(_, _, _)
MeanOver(df, cols, d) ==
    IF cols = << >> THEN <<0, 1>>
    ELSE FracAdd(df.data[Head(cols)][d], MeanOver(df, Tail(cols), d))

\* mutant of RowMean: the row sum, not divided by the number of columns
RowMean_Sum(df, cols, d) == MeanOver(df, cols, d)

\* .mean(axis=1) on one row of the valid columns
RowMean(df, cols, d) == FracDiv(MeanOver(df, cols, d), Len(cols))

\* (pd.to_datetime(start_date) + pd.offsets.MonthEnd()).strftime('%Y-%m-%d')
WindowEnd(start_date) == Strftime(MonthEndOffset(ToDatetime(start_date)))

IsColumnOf(df, c) == c \in Range(df.columns)

\* the body of the loop over the holding-start dates: the frame one start date
\* adds to the running frame, nothing when no held symbol is a column
WindowFrame(returns, cols, start_date) ==
    LET valid_cols == SelectSeq(cols, LAMBDA c : IsColumnOf(returns, c))
        days == SortedSeq({d \in returns.index :
                              d >= start_date /\ d <= WindowEnd(start_date)})
    IN IF valid_cols # << >>
       THEN [columns |-> <<"portfolio_return">>,
             rows |-> [i \in 1..Len(days) |->
                         [date |-> days[i],
                          portfolio_return |-> RowMean(returns, valid_cols, days[i])]]]
       ELSE NoFrame

RECURSIVE ComposeWindows(_, _, _)
ComposeWindows(returns, pdates, acc) ==
    IF pdates = << >> THEN acc
    ELSE ComposeWindows(returns, Tail(pdates),
             PortfolioConcat(acc, WindowFrame(returns, Head(pdates).stocks, Head(pdates).date)))

\* calculate_portfolio_returns_batch for the start dates of one batch
calculate_portfolio_returns_batch(returns, pdates, date_batch) ==
    ComposeWindows(returns,
                   SelectSeq(pdates, LAMBDA e : e.date \in Range(date_batch)),
                   NoFrame)

RECURSIVE ConcatFrames(_)
ConcatFrames(fs) ==
    IF Len(fs) = 1 THEN fs[1]
    ELSE PortfolioConcat(fs[1], ConcatFrames(Tail(fs)))

\* calculate_portfolio_performance after the returns: the start dates in
\* batches of 5, and pd.concat of the non-empty results, which raises
\* ValueError when there is none
calculate_portfolio_performance(returns, pdates) ==
    LET date_list == [i \in 1..Len(pdates) |-> pdates[i].date]
        date_batches == MakeBatches(date_list, DateBatchSize)
        portfolio_results ==
            [k \in 1..Len(date_batches) |->
                calculate_portfolio_returns_batch(returns, pdates, date_batches[k])]
        kept == SelectSeq(portfolio_results, PortfolioNotEmpty)
    IN IF kept = << >> THEN [exc |-> TRUE, error |-> "ValueError: No objects to concatenate"]
       ELSE [exc |-> FALSE, df |-> ConcatFrames(kept)]

\* the loop of the simplified service over portfolio_dates.keys()
simple_portfolio_returns(returns, pdates) ==
    [exc |-> FALSE, df |-> ComposeWindows(returns, pdates, NoFrame)]

\* ---------------------------------------------------------------- metrics
\* get_benchmark_data: the benchmark's log returns, the first row undefined;
\* an answer without rows has no 'Adj Close' column and the lookup raises
get_benchmark_data(quotes) ==
    LET series == SeriesOf(quotes)
        frame == [columns |-> <<"benchmark">>, index |-> DOMAIN series,
                  data |-> [c \in {"benchmark"} |-> series]]
    IN IF DOMAIN series = {} THEN [exc |-> TRUE, error |-> "KeyError: 'Adj Close'"]
       ELSE [exc |-> FALSE, data |-> LogDiff(frame).data["benchmark"]]

\* the values of a column of the merged frame after .dropna()
PortfolioReturns(frame) == [i \in 1..Len(frame.rows) |-> frame.rows[i].portfolio_return]

BenchmarkReturns(frame, bench) ==
    LET rows == SelectSeq(frame.rows, LAMBDA r : r.date \in DOMAIN bench)
    IN [i \in 1..Len(rows) |-> bench[rows[i].date]]

\* np.exp(np.log1p(r).cumsum()).sub(1): the compounded return up to each row
RECURSIVE Compound(_, _)
Compound(rets, n) ==
    IF n = 0 THEN <<1, 1>>
    ELSE FracMul(Compound(rets, n - 1), FracAdd(<<1, 1>>, rets[n]))

Cumulative(rets) == [i \in 1..Len(rets) |-> FracSub(Compound(rets, i), <<1, 1>>)]

\* cumulative.iloc[-1] if len(cumulative) > 0 else 0
TotalReturn(cumulative) ==
    IF Len(cumulative) > 0 THEN cumulative[Len(cumulative)] ELSE <<0, 1>>

RECURSIVE SeqSum(_)
SeqSum(xs) == IF xs = << >> THEN <<0, 1>> ELSE FracAdd(Head(xs), SeqSum(Tail(xs)))

SeqMean(xs) == FracDiv(SeqSum(xs), Len(xs))

Square(f) == FracMul(f, f)

\* the returns are float64 values: every arithmetic result is rounded to the
\* nearest value with 53 significant bits, ties to even.  The model keeps
\* MantissaBits significant bits (odd, as 53 is) and no exponent limit.
MantissaBits == 5

\* the mantissa m of a float: MantissaMin <= m < MantissaMax
MantissaMin == 2 ^ (MantissaBits - 1)
MantissaMax == 2 ^ MantissaBits

Abs(n) == IF n < 0 THEN -n ELSE n

\* n / d = (n' / d') * 2^e with MantissaMin <= n' / d' < MantissaMax
RECURSIVE Exponent(_, _, _)
Exponent(n, d, e) ==
    IF n < d * MantissaMin THEN Exponent(2 * n, d, e - 1)
    ELSE IF n >= d * MantissaMax THEN Exponent(n, 2 * d, e + 1)
    ELSE <<n, d, e>>

RoundHalfEven(n, d) ==
    LET q == n \div d
        r == n % d
    IN IF 2 * r > d \/ (2 * r = d /\ q % 2 = 1) THEN q + 1 ELSE q

\* the float nearest to the fraction f
Float(f) ==
    IF f[1] = 0 THEN <<0, 1>>
    ELSE LET s == Exponent(Abs(f[1]), f[2], 0)
             q == RoundHalfEven(s[1], s[2]) * (IF f[1] < 0 THEN -1 ELSE 1)
         IN IF s[3] >= 0 THEN <<q * 2 ^ s[3], 1>> ELSE FracNorm(<<q, 2 ^ (-s[3])>>)

\* values.sum(): the running sum, rounded after each addition
RECURSIVE FloatSum(_, _)
FloatSum(xs, acc) ==
    IF xs = << >> THEN acc ELSE FloatSum(Tail(xs), Float(FracAdd(acc, Head(xs))))

\* Series.mean(): values.sum() / count
FloatMean(xs) == Float(FracDiv(FloatSum(xs, <<0, 1>>), Len(xs)))

\* Series.std() * np.sqrt(252), kept as its square: NaN below two
\* observations; otherwise avg = values.sum() / count in floats, and
\* ((avg - values) ** 2).sum() / (count - 1).  The squares and their sum are
\* kept exact: with no exponent limit their rounding keeps zero and non-zero.
Volatility(xs) ==
    IF Len(xs) < 2 THEN [nan |-> TRUE, squared |-> <<0, 1>>]
    ELSE LET values == [i \in 1..Len(xs) |-> Float(xs[i])]
             avg == FloatMean(values)
             sqr == [i \in 1..Len(xs) |-> Square(Float(FracSub(avg, values[i])))]
         IN [nan |-> FALSE,
             squared |-> FracMul(<<252, 1>>, FracDiv(SeqSum(sqr), Len(xs) - 1))]

\* (mean * 252) / volatility if volatility > 0 else 0; NaN > 0 is false
SharpeRatio(xs, vol) ==
    IF ~vol.nan /\ FracGt(vol.squared, <<0, 1>>)
    THEN [zero |-> FALSE, mean252 |-> FracMul(<<252, 1>>, SeqMean(xs)),
          volatility_squared |-> vol.squared]
    ELSE [zero |-> TRUE, mean252 |-> <<0, 1>>, volatility_squared |-> <<0, 1>>]

\* the merge with the benchmark up to the result dict; the merged frame has no
\* 'portfolio_return' column when no window added a frame
Metrics(frame, bench, pdates, stocks) ==
    IF frame.columns = << >> THEN [exc |-> TRUE, error |-> "KeyError: 'portfolio_return'"]
    ELSE
    LET portfolio_returns == PortfolioReturns(frame)
        benchmark_rets == BenchmarkReturns(frame, bench)
        portfolio_cumulative == Cumulative(portfolio_returns)
        benchmark_cumulative == Cumulative(benchmark_rets)
        portfolio_volatility == Volatility(portfolio_returns)
    IN [exc |-> FALSE,
        result |->
          [status |-> "success",
           analysis |->
             [total_portfolio_return |-> TotalReturn(portfolio_cumulative),
              total_benchmark_return |-> TotalReturn(benchmark_cumulative),
              excess_return |-> FracSub(TotalReturn(portfolio_cumulative),
                                        TotalReturn(benchmark_cumulative)),
              portfolio_volatility |-> portfolio_volatility,
              benchmark_volatility |-> Volatility(benchmark_rets),
              sharpe_ratio |-> SharpeRatio(portfolio_returns, portfolio_volatility),
              number_of_periods |-> Len(pdates),
              unique_stocks_analyzed |-> Len(stocks)],
           performance_data |->
             [dates |-> [i \in 1..Len(frame.rows) |-> frame.rows[i].date],
              portfolio_cumulative_returns |-> portfolio_cumulative,
              benchmark_cumulative_returns |-> benchmark_cumulative],
           portfolio_composition |-> pdates]]

\* --------------------------------------------------------------- analysis
CompKeys == {20210201, 20210301}
CompSymbols == {"A", "B", "MRO"}

\* the compositions the sentiment stage can hand over: start dates in order,
\* each with the sorted list of its symbols
Compositions ==
    UNION {{[i \in 1..Cardinality(K) |->
                [date |-> SortedSeq(K)[i],
                 stocks |-> SortedSymbols(f[SortedSeq(K)[i]])]] :
            f \in [K -> (SUBSET CompSymbols) \ {{}}]} : K \in SUBSET CompKeys}

PerfQuotes == {QuotesFull, QuotesConst, QuotesLate, QuotesGap, QuotesSingle, QuotesNone}
BenchQuotes == {QuotesFull, QuotesGap, QuotesNone}

Permutations(S) == {q \in DistinctSeqs(S, Cardinality(S)) : Len(q) = Cardinality(S)}

\* the answers of the price source to a sequence of batches
RECURSIVE ResponseSeqs(_)
ResponseSeqs(bs) ==
    IF bs = << >> THEN {<< >>}
    ELSE {<<r>> \o rest :
            r \in {[kind |-> "raise", quotes |-> [t \in Range(Head(bs)) |-> QuotesNone]]}
                  \cup {[kind |-> "ok", quotes |-> q] :
                           q \in [Range(Head(bs)) -> PerfQuotes]},
            rest \in ResponseSeqs(Tail(bs))}

SentimentMsg == "No se pudieron procesar datos de sentimiento"
PricesMsg == "No se pudieron descargar datos de acciones"

\* what a failure inside analyze_portfolio becomes: the services wrap every
\* exception of the try block in HTTPException(500, "Error interno: ...")
ApiError(inner) ==
    [status |-> "error", status_code |-> 500, detail |-> <<"Error interno">> \o inner]

\* run_portfolio_analysis logs the message and returns None
MainReturnsNone(msg) == [status |-> "none", status_code |-> 0, detail |-> <<msg>>]

\* run_portfolio_analysis re-raises, main() prints and exits with 1
MainRaises(err) == [status |-> "raised", status_code |-> 1, detail |-> <<err>>]

\* mutant of PricesMissing: the emptiness of the price table is not checked
PricesMissing_Never(df) == FALSE

\* if prices_df.empty:
PricesMissing(df) == IsEmpty(df)

PerfInit ==
    /\ service \in {"ray", "simple", "main"}
    /\ portfolio_dates \in Compositions
    /\ batch_size \in 1..MaxBatchSize
    /\ request = "None" /\ csv = {} /\ sentiment_df = "None"
    /\ aggregated_df = "None" /\ filtered_df = "None" /\ spc = "done"
    /\ stocks_list = << >> /\ batches = << >> /\ responses = << >>
    /\ futures = << >> /\ combined_df = "None" /\ fpc = "idle"
    /\ unique_stocks = << >> /\ prices_df = "None" /\ returns_df = "None"
    /\ portfolio_df = "None" /\ result = "None" /\ apc = "start"
    /\ ExtraIdle

AllStocks == UNION {Range(portfolio_dates[i].stocks) : i \in 1..Len(portfolio_dates)}

\* `if not portfolio_dates` of the Ray service and of main.py
EmptyComposition ==
    /\ service \in {"ray", "main"} /\ apc = "start"
    /\ portfolio_dates = << >>
    /\ result' = IF service = "ray" THEN ApiError(<<"400", SentimentMsg>>)
                 ELSE MainReturnsNone(SentimentMsg)
    /\ apc' = "failed_composition"
    /\ UNCHANGED <<service, sentVars, extraVars, fetchVars, unique_stocks, prices_df, returns_df,
                   portfolio_df>>

\* unique_stocks = list(set(all_stocks)): the symbols once, in any order
ExtractStocks ==
    /\ apc = "start"
    /\ service = "simple" \/ portfolio_dates # << >>
    /\ \E order \in Permutations(AllStocks) :
          unique_stocks' = IF service = "simple" THEN SimpleExclude(order) ELSE order
    /\ apc' = "download"
    /\ UNCHANGED <<service, sentVars, extraVars, fetchVars, prices_df, returns_df, portfolio_df, result>>

\* the price download of the analysis, to the check of an empty table
Download ==
    /\ apc = "download"
    /\ LET bs == IF service = "simple" THEN MakeBatches(unique_stocks, batch_size)
                 ELSE MakeBatches(EngineExclude(unique_stocks), batch_size)
       IN \E resp \in ResponseSeqs(bs) :
            LET outcomes == [i \in 1..Len(bs) |-> download_stock_batch(bs[i], resp[i])]
                r == IF service = "simple" THEN SimpleCombine(outcomes)
                     ELSE EngineCombine(outcomes)
            IN /\ stocks_list' = unique_stocks
               /\ batches' = bs
               /\ responses' = resp
               /\ futures' = [i \in 1..Len(bs) |-> [state |-> "done", outcome |-> outcomes[i]]]
               /\ IF r.exc
                  THEN /\ fpc' = "raised"
                       /\ UNCHANGED <<combined_df, prices_df>>
                       /\ result' = IF service = "main" THEN MainRaises("download")
                                    ELSE ApiError(<<"download">>)
                       /\ apc' = "failed_download"
                  ELSE /\ fpc' = "returned"
                       /\ combined_df' = r.df
                       /\ prices_df' = r.df
                       /\ IF PricesMissing(r.df)
                          THEN /\ result' = IF service = "main" THEN MainReturnsNone(PricesMsg)
                                            ELSE ApiError(<<"500", PricesMsg>>)
                               /\ apc' = "failed_download"
                          ELSE /\ UNCHANGED result
                               /\ apc' = "performance"
    /\ UNCHANGED <<service, sentVars, extraVars, batch_size, unique_stocks, returns_df, portfolio_df>>

\* the returns and the portfolio return series
ComputePerformance ==
    /\ apc = "performance"
    /\ LET returns == calculate_returns(prices_df)
           r == IF service = "simple" THEN simple_portfolio_returns(returns, portfolio_dates)
                ELSE calculate_portfolio_performance(returns, portfolio_dates)
       IN /\ returns_df' = returns
          /\ IF r.exc
             THEN /\ result' = IF service = "main" THEN MainRaises(r.error)
                               ELSE ApiError(<<r.error>>)
                  /\ apc' = "failed_performance"
                  /\ UNCHANGED portfolio_df
             ELSE /\ portfolio_df' = r.df
                  /\ apc' = "metrics"
                  /\ UNCHANGED result
    /\ UNCHANGED <<service, sentVars, extraVars, fetchVars, unique_stocks, prices_df>>

\* the benchmark download, the merge and the metrics, to the result
ComputeMetrics ==
    /\ apc = "metrics"
    /\ \E quotes \in BenchQuotes :
        LET bench == get_benchmark_data(quotes)
            m == IF bench.exc THEN bench
                 ELSE Metrics(portfolio_df, bench.data, portfolio_dates, unique_stocks)
        IN IF m.exc
           THEN /\ result' = IF service = "main" THEN MainRaises(m.error)
                             ELSE ApiError(<<m.error>>)
                /\ apc' = "failed_metrics"
           ELSE /\ result' = m.result
                /\ apc' = "done"
    /\ UNCHANGED <<service, sentVars, extraVars, fetchVars, unique_stocks, prices_df, returns_df,
                   portfolio_df>>

PerfNext ==
    \/ EmptyComposition
    \/ ExtractStocks
    \/ Download
    \/ ComputePerformance
    \/ ComputeMetrics

SpecPerf == PerfInit /\ [][PerfNext]_vars

\* ------------------------------------------------- the metrics on their own
\* the rows of the series the metrics are computed from
MaxPeriods == 3

\* daily returns: losses, no change, gains
MetricReturns == {<<-1, 10>>, <<0, 1>>, <<1, 10>>, <<1, 5>>}

MetricDates == Tail(TradingDays)

MetricFrame(v) ==
    [columns |-> <<"portfolio_return">>,
     rows |-> [i \in 1..Len(v) |-> [date |-> MetricDates[i], portfolio_return |-> v[i]]]]

\* the portfolio frames that reach the merge with the benchmark
MetricFrames ==
    {MetricFrame(v) : v \in UNION {[1..m -> MetricReturns] : m \in 0..MaxPeriods}}

\* the analysis at the merge: pd.concat gave the Ray service and main.py a
\* series with a row; the loop of the simplified service may have added none
MetricsInit ==
    /\ service \in {"ray", "simple", "main"}
    /\ portfolio_df \in {f \in MetricFrames : service = "simple" \/ f.rows # << >>}
    /\ portfolio_dates = << >> /\ unique_stocks = << >>
    /\ prices_df = "None" /\ returns_df = "None"
    /\ result = "None" /\ apc = "metrics"
    /\ request = "None" /\ csv = {} /\ sentiment_df = "None"
    /\ aggregated_df = "None" /\ filtered_df = "None" /\ spc = "done"
    /\ stocks_list = << >> /\ batch_size = 1 /\ batches = << >> /\ responses = << >>
    /\ futures = << >> /\ combined_df = "None" /\ fpc = "idle"
    /\ ExtraIdle

SpecMetrics == MetricsInit /\ [][ComputeMetrics]_vars

\* ------------------------------------- the fan-out over the holding windows
\* the months a composition may start a holding window in
MaxWindows == 6

MonthStarts == <<20210201, 20210301, 20210401, 20210501, 20210601, 20210701, 20210801>>

WindowStarts == {MonthStarts[i] : i \in 1..MaxWindows}

\* the compositions that reach the performance stage: not empty, the start
\* dates in order, each holding one symbol
WindowCompositions ==
    UNION {{[i \in 1..Cardinality(K) |->
                [date |-> SortedSeq(K)[i], stocks |-> <<f[SortedSeq(K)[i]]>>]] :
            f \in [K -> {"A", "B"}]} : K \in (SUBSET WindowStarts) \ {{}}}

\* the return table of symbol A: two trading days in each month of M
ReturnTable(M) ==
    LET days == M \cup {d + 1 : d \in M}
    IN [columns |-> <<"A">>,
        index |-> days,
        data |-> [c \in {"A"} |-> [d \in days |-> IF d \in M THEN <<1, 10>> ELSE <<-1, 10>>]]]

\* the months the price source had quotes in: all of them, or all but one
ReturnTables ==
    {ReturnTable(M) : M \in {N \in SUBSET WindowStarts : Cardinality(N) >= MaxWindows - 1}}

\* calculate_portfolio_performance after ray.get(returns_future)
ComposeInit ==
    /\ service \in {"ray", "main"}
    /\ portfolio_dates \in WindowCompositions
    /\ returns_df \in ReturnTables
    /\ window_batches = << >> /\ portfolio_futures = << >> /\ cpc = "start"
    /\ request = "None" /\ csv = {} /\ sentiment_df = "None"
    /\ aggregated_df = "None" /\ filtered_df = "None" /\ spc = "done"
    /\ FetchIdle
    /\ unique_stocks = << >> /\ prices_df = "None"
    /\ portfolio_df = "None" /\ result = "None" /\ apc = "performance"
    /\ CacheIdle /\ EngineIdle

notCompose == <<service, sentVars, fetchVars, cacheVars, engineVars, unique_stocks, prices_df,
                returns_df, apc>>

\* date_batches, and one remote task per batch
SplitDates ==
    /\ cpc = "start"
    /\ LET date_list == [i \in 1..Len(portfolio_dates) |-> portfolio_dates[i].date]
       IN window_batches' = MakeBatches(date_list, DateBatchSize)
    /\ portfolio_futures' =
          [k \in 1..Len(window_batches') |-> [state |-> "pending", finished |-> 0, df |-> NoFrame]]
    /\ cpc' = "dispatched"
    /\ UNCHANGED <<notCompose, portfolio_df, result>>

\* mutant of Completed: a task counts as finished as soon as it is submitted
Completed_Submitted(futs) == DOMAIN futs

\* the tasks ray.get has a result for
Completed(futs) == {k \in 1..Len(futs) : futs[k].state = "done"}

\* a worker finishes calculate_portfolio_returns_batch for batch k
BatchCompletes(k) ==
    /\ cpc = "dispatched"
    /\ portfolio_futures[k].state = "pending"
    /\ portfolio_futures' =
          [portfolio_futures EXCEPT ![k] =
              [state |-> "done",
               finished |-> Cardinality(Completed(portfolio_futures)) + 1,
               df |-> calculate_portfolio_returns_batch(returns_df, portfolio_dates,
                                                        window_batches[k])]]
    /\ UNCHANGED <<notCompose, window_batches, cpc, portfolio_df, result>>

\* mutant of ResultOrder: the results in the order the tasks finished
ResultOrder_Finished(futs) ==
    [n \in 1..Len(futs) |-> CHOOSE k \in 1..Len(futs) : futs[k].finished = n]

\* ray.get(portfolio_futures): the results in the order of the list
ResultOrder(futs) == [n \in 1..Len(futs) |-> n]

\* ray.get of all the tasks and pd.concat of the results that have rows
GatherWindows ==
    /\ cpc = "dispatched"
    /\ Completed(portfolio_futures) = DOMAIN portfolio_futures
    /\ LET order == ResultOrder(portfolio_futures)
           portfolio_results == [n \in 1..Len(order) |-> portfolio_futures[order[n]].df]
           kept == SelectSeq(portfolio_results, PortfolioNotEmpty)
       IN IF kept = << >>
          THEN /\ result' = IF service = "main"
                            THEN MainRaises("ValueError: No objects to concatenate")
                            ELSE ApiError(<<"ValueError: No objects to concatenate">>)
               /\ cpc' = "failed"
               /\ UNCHANGED portfolio_df
          ELSE /\ portfolio_df' = ConcatFrames(kept)
               /\ cpc' = "done"
               /\ UNCHANGED result
    /\ UNCHANGED <<notCompose, window_batches, portfolio_futures>>

ComposeNext ==
    \/ SplitDates
    \/ \E k \in DOMAIN portfolio_futures : BatchCompletes(k)
    \/ GatherWindows

SpecCompose == ComposeInit /\ [][ComposeNext]_vars

\* ------------------------------------------------------- claims C6, C8-C10
Finished ==
    apc \in {"done", "failed_composition", "failed_download", "failed_performance",
             "failed_metrics"}

\* the analysis got as far as the computation of the returns
PerformanceRan == apc \in {"metrics", "done", "failed_performance", "failed_metrics"}

\* the portfolio return series exists
SeriesBuilt == apc \in {"metrics", "done", "failed_metrics"}

LastOf(seq) == seq[Len(seq)]

IsPriceError(r) == r.status \in {"error", "none"} /\ LastOf(r.detail) = PricesMsg

\* C6: partial fetch failure is recovered locally.  The analysis ends with the
\* price-data error exactly when no batch of the download came back with data;
\* when one did, the price table holds the symbols of the batches that did
\* and the analysis goes on to the returns.
C6_PartialFailureRecovered ==
    /\ Finished => (IsPriceError(result) <=> (fpc = "returned" /\ DataBatches = << >>))
    /\ (fpc = "returned" /\ DataBatches # << >>) =>
          /\ PerformanceRan \/ apc = "performance"
          /\ prices_df.columns =
                Flatten([k \in 1..Len(DataBatches) |-> batches[DataBatches[k]]])

\* two batches, the source raised for one of them, and the analysis succeeded
\* on the other's symbol
C6_Witness ==
    /\ apc = "done" /\ result.status = "success"
    /\ Len(batches) = 2
    /\ \E i \in 1..2 : responses[i].kind = "raise"
    /\ Len(prices_df.columns) = 1

\* start date s holds a symbol that is a column of the return table
HasValidSymbol(i) ==
    \E c \in Range(portfolio_dates[i].stocks) : c \in Range(returns_df.columns)

\* d lies in the holding window of start date s: from s to the end of s's month
InWindow(d, s) == d >= s /\ d \div 100 = s \div 100

IsComposeError(r) ==
    r.status \in {"error", "raised"}
    /\ LastOf(r.detail) = "ValueError: No objects to concatenate"

\* C8: a holding window none of whose symbols is a column of the return
\* table adds no row to the portfolio series, and the composition of the
\* series raises no error over the missing symbols.
C8_MissingSymbolsNoRowsNoError ==
    /\ SeriesBuilt =>
          \A k \in 1..Len(portfolio_df.rows) :
              \E i \in 1..Len(portfolio_dates) :
                  /\ InWindow(portfolio_df.rows[k].date, portfolio_dates[i].date)
                  /\ HasValidSymbol(i)
    /\ (apc = "failed_performance" /\ \E i \in 1..Len(portfolio_dates) : ~HasValidSymbol(i))
          => ~IsComposeError(result)

NoWindowContributes ==
    \A i \in 1..Len(portfolio_dates) :
        HasValidSymbol(i) =>
            \A d \in returns_df.index : ~InWindow(d, portfolio_dates[i].date)

IsBenchmarkError(r) ==
    r.status \in {"error", "raised"} /\ LastOf(r.detail) = "KeyError: 'Adj Close'"

\* C9: an empty portfolio return series is not an error.  With a non-empty
\* price table and no window contributing a row, the analysis ends with total
\* portfolio return 0 and Sharpe ratio 0 (unless the benchmark source fails).
C9_EmptySeriesNotAnError ==
    (Finished /\ PerformanceRan /\ NoWindowContributes /\ ~IsBenchmarkError(result)) =>
        /\ result.status = "success"
        /\ result.analysis.total_portfolio_return = <<0, 1>>
        /\ result.analysis.sharpe_ratio.zero

\* column c of the price table has a return of its own on row d
OwnReturnDefined(c, d) ==
    /\ d \in DOMAIN prices_df.data[c]
    /\ d # Min(prices_df.index)
    /\ PrevRow(prices_df, d) \in DOMAIN prices_df.data[c]

\* C10: ragged start dates.  Only a symbol's own undefined differences are
\* dropped: every row on which T has a return of its own is a row of the
\* return table, whatever the other symbols have on that row.
C10_RaggedStartsKept ==
    PerformanceRan =>
        \A c \in Range(prices_df.columns) : \A d \in prices_df.index :
            OwnReturnDefined(c, d) => d \in returns_df.index

\* the held symbols of start date i that are columns of the return table
ValidHeld(i) == Range(portfolio_dates[i].stocks) \cap Range(returns_df.columns)

RECURSIVE ReturnSum(_, _)
ReturnSum(S, d) ==
    IF S = {} THEN <<0, 1>>
    ELSE LET c == CHOOSE x \in S : TRUE
         IN FracAdd(returns_df.data[c][d], ReturnSum(S \ {c}, d))

RowsOn(d) == {k \in 1..Len(portfolio_df.rows) : portfolio_df.rows[k].date = d}

\* C19: equal-weighted window return.  For every start date s with a held
\* symbol in the return table and every date d of the table from s to the end
\* of s's month, the series has one row for d, the arithmetic mean of the
\* returns on d of those symbols; every row of the series is such a row.
C19_EqualWeightedWindow ==
    SeriesBuilt =>
        /\ \A i \in 1..Len(portfolio_dates) : \A d \in returns_df.index :
              (HasValidSymbol(i) /\ InWindow(d, portfolio_dates[i].date)) =>
                  /\ Cardinality(RowsOn(d)) = 1
                  /\ \A k \in RowsOn(d) :
                        FracEq(portfolio_df.rows[k].portfolio_return,
                               FracDiv(ReturnSum(ValidHeld(i), d),
                                       Cardinality(ValidHeld(i))))
        /\ \A k \in 1..Len(portfolio_df.rows) :
              /\ portfolio_df.rows[k].date \in returns_df.index
              /\ \E i \in 1..Len(portfolio_dates) :
                    InWindow(portfolio_df.rows[k].date, portfolio_dates[i].date)

\* a window of two held symbols with different returns on a day, a held
\* symbol without a column, and a day of the return table before the window
C19_Witness ==
    /\ apc = "done" /\ result.status = "success"
    /\ \E i \in 1..Len(portfolio_dates) :
          /\ Cardinality(ValidHeld(i)) = 2
          /\ Len(portfolio_dates[i].stocks) = 3
          /\ \E d \in returns_df.index :
                /\ InWindow(d, portfolio_dates[i].date)
                /\ \E a, b \in ValidHeld(i) : returns_df.data[a][d] # returns_df.data[b][d]
                /\ ~FracEq(ReturnSum(ValidHeld(i), d), <<0, 1>>)
    /\ \E d \in returns_df.index :
          \A i \in 1..Len(portfolio_dates) : ~InWindow(d, portfolio_dates[i].date)

\* C20: the final portfolio return series is in chronological order.  The
\* dates of the merged series are strictly increasing, within and across
\* the batches of start dates, in whatever order the batches finish.
C20_ChronologicalSeries ==
    cpc = "done" =>
        \A k \in 1..(Len(portfolio_df.rows) - 1) :
            portfolio_df.rows[k].date < portfolio_df.rows[k + 1].date

\* more than five start dates, so two batches; both added rows, and the
\* second batch finished first
C20_Witness ==
    /\ cpc = "done"
    /\ Len(portfolio_dates) > 5
    /\ Len(window_batches) = 2
    /\ portfolio_futures[2].finished < portfolio_futures[1].finished
    /\ \A k \in 1..2 : portfolio_futures[k].df.rows # << >>
    /\ Len(portfolio_df.rows) > 2

\* what each entry point reports when the price table is empty
PriceFailure(svc) ==
    IF svc = "main" THEN MainReturnsNone(PricesMsg) ELSE ApiError(<<"500", PricesMsg>>)

\* C15: an empty composition is reported as a condition of its own.  An
\* analysis whose composition is empty never ends with the status and the
\* message of the empty price table.
C15_EmptyCompositionDistinct ==
    (Finished /\ portfolio_dates = << >>) => result # PriceFailure(service)

ZeroVariance(xs) == \A i, j \in 1..Len(xs) : xs[i] = xs[j]

\* C16: degenerate metrics resolve to defaults.  The Sharpe ratio is 0 when
\* the portfolio returns have zero variance or fewer than two observations,
\* a total return is 0 when its cumulative series is empty, and the metric
\* computation raises no error (only the benchmark download can fail).
C16_DegenerateMetricsDefault ==
    /\ apc = "failed_metrics" => IsBenchmarkError(result)
    /\ (apc = "done" /\ result.status = "success") =>
          LET xs == PortfolioReturns(portfolio_df)
          IN /\ ZeroVariance(xs) => result.analysis.sharpe_ratio.zero
             /\ xs = << >> => result.analysis.total_portfolio_return = <<0, 1>>
             /\ result.performance_data.benchmark_cumulative_returns = << >> =>
                   result.analysis.total_benchmark_return = <<0, 1>>

\* ==================================================================== cache
\* the analyses one run of a service computes
MaxClock == 2

\* the values a key can take: hash() has a fixed width
HashSpace == 3

\* top_n_stocks: int = 5 of PortfolioRequest
RequestDefaultTopN == 5

\* class PortfolioRequest(BaseModel): the fields in the order of declaration
RequestFields ==
    <<"sentiment_url", "start_date", "end_date", "top_n_stocks", "benchmark_ticker">>

DefaultRequest ==
    [sentiment_url |-> "sentiment_data.csv", start_date |-> "2021-01-01",
     end_date |-> "2023-03-01", top_n_stocks |-> RequestDefaultTopN,
     benchmark_ticker |-> "QQQ"]

\* the request bodies: the fields a client supplies, in the order it supplies
\* them, each with its value (a field that is not supplied has none: the
\* record keeps the default there)
Body(order, top_n, ticker) ==
    [order |-> order, top_n_stocks |-> top_n, benchmark_ticker |-> ticker]

Bodies ==
    {Body(<< >>, RequestDefaultTopN, "QQQ"),
     Body(<<"top_n_stocks", "benchmark_ticker">>, RequestDefaultTopN, "QQQ"),
     Body(<<"top_n_stocks", "benchmark_ticker">>, 3, "SPY"),
     Body(<<"benchmark_ticker", "top_n_stocks">>, 3, "SPY"),
     Body(<<"benchmark_ticker">>, RequestDefaultTopN, "SPY")}

\* mutant of PortfolioRequest: a field that is not supplied stays unset
PortfolioRequest_NoDefaults(body) ==
    [DefaultRequest EXCEPT
        !.top_n_stocks = IF "top_n_stocks" \in Range(body.order)
                         THEN body.top_n_stocks ELSE 0,
        !.benchmark_ticker = IF "benchmark_ticker" \in Range(body.order)
                             THEN body.benchmark_ticker ELSE ""]

\* pydantic's parse of a body: every field, the default where none is supplied
PortfolioRequest(body) ==
    [DefaultRequest EXCEPT
        !.top_n_stocks = IF "top_n_stocks" \in Range(body.order)
                         THEN body.top_n_stocks ELSE DefaultRequest.top_n_stocks,
        !.benchmark_ticker = IF "benchmark_ticker" \in Range(body.order)
                             THEN body.benchmark_ticker
                             ELSE DefaultRequest.benchmark_ticker]

\* str(request.dict()): the values in the order of declaration of the fields
RequestStr(req) == [i \in 1..Len(RequestFields) |-> req[RequestFields[i]]]

KnownStrings ==
    <<"", "QQQ", "SPY", "sentiment_data.csv", "2021-01-01", "2023-03-01">>

StringCode(str) == CHOOSE i \in 1..Len(KnownStrings) : KnownStrings[i] = str

\* hash(text) of one interpreter run: the seed is drawn when the process starts
HashSeeds == {0, 1}

Hash(seed, text) ==
    ((seed + 1) * (StringCode(text[1]) + StringCode(text[2]) + StringCode(text[3])
                   + text[4] + 2 * StringCode(text[5]))) % HashSpace

\* cache_key = f"portfolio_{hash(str(request.dict()))}"
CacheKey(seed, req) == <<"portfolio", Hash(seed, RequestStr(req))>>

\* mutant of CacheHit: the lookup never finds the key
CacheHit_Never(c, key) == FALSE

\* if cache_key in cache
CacheHit(c, key) == key \in DOMAIN c

\* mutant of CachePut: setdefault, the first payload of a key stays
CachePut_KeepFirst(c, key, value) ==
    [k \in DOMAIN c \cup {key} |-> IF k \in DOMAIN c THEN c[k] ELSE value]

\* mutant of CachePut: the new entry replaces the whole dictionary
CachePut_Alone(c, key, value) == [k \in {key} |-> value]

\* cache[cache_key] = result
CachePut(c, key, value) ==
    [k \in DOMAIN c \cup {key} |-> IF k = key THEN value ELSE c[k]]

\* the result dict of a successful analysis: it carries the parameters of its
\* request and the time of its computation
Payload(req, t) == [status |-> "success", request_params |-> req, timestamp |-> t]

NoPayload == [status |-> "none", request_params |-> DefaultRequest, timestamp |-> 0]

Ok200(payload) == [status_code |-> 200, body |-> payload]

\* raise HTTPException(status_code=500, detail=f"Error interno: {str(e)}")
Error500 == [status_code |-> 500, body |-> NoPayload]

NoResponse == [status_code |-> 0, body |-> NoPayload]

\* the threads that run analyze_portfolio
Handlers == {"t1", "t2"}

\* some entry of the cache was computed for these parameters
HasEntryFor(c, req) == \E k \in DOMAIN c : c[k].request_params = req

IdleHandler ==
    [pc |-> "idle", body |-> Body(<< >>, RequestDefaultTopN, "QQQ"),
     request |-> DefaultRequest, cache_key |-> <<"portfolio", 0>>,
     had_entry |-> FALSE, interrupted |-> FALSE, fetched |-> FALSE,
     result |-> NoPayload, response |-> NoResponse]

\* a request as analyze_portfolio sees it before the lookup; had_entry
\* records whether the cache held a payload of these parameters at that time
Accepted(body, pc) ==
    LET req == PortfolioRequest(body)
    IN [IdleHandler EXCEPT !.pc = pc, !.body = body, !.request = req,
                           !.cache_key = CacheKey(hash_seed, req),
                           !.had_entry = HasEntryFor(cache, req)]

CacheInit ==
    /\ service \in {"ray", "simple"}
    /\ hash_seed \in HashSeeds
    /\ cache = EmptyCache
    /\ handlers = [h \in Handlers |-> IdleHandler]
    /\ now = 0
    /\ clear_pc = "idle" /\ cache_size = 0
    /\ SentIdle /\ FetchIdle /\ PerfIdle /\ ComposeIdle /\ EngineIdle

notCache == <<service, sentVars, fetchVars, perfVars, composeVars, engineVars>>

\* the Ray service runs analyze_portfolio on worker threads, a step at a time
\* the entry of analyze_portfolio up to `if cache_key in self.cache`
Receive(h) ==
    /\ service = "ray"
    /\ handlers[h].pc \in {"idle", "done"}
    /\ \E body \in Bodies :
          LET key == CacheKey(hash_seed, PortfolioRequest(body))
          IN handlers' = [handlers EXCEPT ![h] =
                 Accepted(body, IF CacheHit(cache, key) THEN "hit" ELSE "miss")]
    /\ UNCHANGED <<hash_seed, cache, now, clear_pc, cache_size, notCache>>

\* return self.cache[cache_key]; a key that is gone raises KeyError, which the
\* handler turns into the 500 answer
ReturnCached(h) ==
    /\ service = "ray"
    /\ handlers[h].pc = "hit"
    /\ handlers' = [handlers EXCEPT
          ![h].pc = "done",
          ![h].response = IF handlers[h].cache_key \in DOMAIN cache
                          THEN Ok200(cache[handlers[h].cache_key]) ELSE Error500]
    /\ UNCHANGED <<hash_seed, cache, now, clear_pc, cache_size, notCache>>

\* mutant of AfterCompute: the write is reached whatever the computation gave
AfterCompute_AlwaysStore(ok) == "store"

\* an exception leaves the try block for the handler of line 217; only a
\* computation that ended reaches the write of line 212
AfterCompute(ok) == IF ok THEN "store" ELSE "done"

\* the pipeline of a request that missed: it reads the sentiment and the price
\* source and ends with the result dict or with an exception
Compute(h) ==
    /\ service = "ray"
    /\ handlers[h].pc = "miss"
    /\ now < MaxClock
    /\ \E ok \in BOOLEAN :
          handlers' = [handlers EXCEPT
              ![h].fetched = TRUE,
              ![h].pc = AfterCompute(ok),
              ![h].result = IF ok THEN Payload(handlers[h].request, now + 1)
                            ELSE NoPayload,
              ![h].response = IF ok THEN NoResponse ELSE Error500]
    /\ now' = now + 1
    /\ UNCHANGED <<hash_seed, cache, clear_pc, cache_size, notCache>>

\* self.cache[cache_key] = result; return result
Store(h) ==
    /\ service = "ray"
    /\ handlers[h].pc = "store"
    /\ cache' = CachePut(cache, handlers[h].cache_key, handlers[h].result)
    /\ handlers' = [handlers EXCEPT ![h].pc = "done", ![h].result = NoPayload,
                                    ![h].response = Ok200(handlers[h].result)]
    /\ UNCHANGED <<hash_seed, now, clear_pc, cache_size, notCache>>

\* clear_cache of the Ray service runs on the event loop, beside the worker
\* threads: cache_size = len(self.cache)
ClearLen ==
    /\ service = "ray"
    /\ clear_pc = "idle"
    /\ cache_size' = Cardinality(DOMAIN cache)
    /\ clear_pc' = "counted"
    /\ UNCHANGED <<hash_seed, cache, handlers, now, notCache>>

\* self.cache.clear() and the answer that reports cache_size
ClearEntries ==
    /\ service = "ray"
    /\ clear_pc = "counted"
    /\ cache' = EmptyCache
    /\ handlers' = [h \in Handlers |->
                      IF handlers[h].pc = "hit"
                      THEN [handlers[h] EXCEPT !.interrupted = TRUE] ELSE handlers[h]]
    /\ clear_pc' = "idle"
    /\ UNCHANGED <<hash_seed, now, cache_size, notCache>>

\* the simplified service: analyze_portfolio is a coroutine that never awaits,
\* so one request runs from its entry to its answer without another in between
SimpleAnalyze(h) ==
    /\ service = "simple"
    /\ \E body \in Bodies, ok \in BOOLEAN :
          LET a == Accepted(body, "done")
              payload == Payload(a.request, now + 1)
          IN IF CacheHit(cache, a.cache_key)
             THEN /\ handlers' = [handlers EXCEPT ![h] =
                        [a EXCEPT !.response = Ok200(cache[a.cache_key])]]
                  /\ UNCHANGED <<cache, now>>
             ELSE /\ now < MaxClock
                  /\ now' = now + 1
                  /\ IF ok
                     THEN /\ cache' = CachePut(cache, a.cache_key, payload)
                          /\ handlers' = [handlers EXCEPT ![h] =
                                [a EXCEPT !.fetched = TRUE,
                                          !.response = Ok200(payload)]]
                     ELSE /\ handlers' = [handlers EXCEPT ![h] =
                                [a EXCEPT !.fetched = TRUE, !.response = Error500]]
                          /\ UNCHANGED cache
    /\ UNCHANGED <<hash_seed, clear_pc, cache_size, notCache>>

\* clear_cache of the simplified service, in one piece for the same reason
SimpleClear ==
    /\ service = "simple"
    /\ cache_size' = Cardinality(DOMAIN cache)
    /\ cache' = EmptyCache
    /\ UNCHANGED <<hash_seed, handlers, now, clear_pc, notCache>>

CacheNext ==
    \/ \E h \in Handlers : Receive(h)
    \/ \E h \in Handlers : ReturnCached(h)
    \/ \E h \in Handlers : Compute(h)
    \/ \E h \in Handlers : Store(h)
    \/ ClearLen
    \/ ClearEntries
    \/ \E h \in Handlers : SimpleAnalyze(h)
    \/ SimpleClear

SpecCache == CacheInit /\ [][CacheNext]_vars

\* ----------------------------------------------------------- claims C11-C14
\* handler h gives its answer in this step
Answers(h) == handlers'[h] # handlers[h] /\ handlers'[h].pc = "done"

\* C11: idempotent memoization.  A request that arrives while the cache holds
\* the payload of an analysis with the same normalized parameters, with no
\* clear before its answer, is answered with the payload stored under its key,
\* and neither the sentiment nor the price source is read for it.
C11_IdempotentMemoization ==
    [][\A h \in Handlers :
          (Answers(h) /\ handlers'[h].had_entry /\ ~handlers'[h].interrupted) =>
              /\ handlers'[h].cache_key \in DOMAIN cache
              /\ handlers'[h].response = Ok200(cache[handlers'[h].cache_key])
              /\ ~handlers'[h].fetched]_vars

\* a request answered from a payload that an earlier analysis stored
C11_Witness ==
    \E h \in Handlers :
        /\ handlers[h].pc = "done" /\ handlers[h].had_entry
        /\ ~handlers[h].interrupted /\ ~handlers[h].fetched
        /\ handlers[h].response.status_code = 200
        /\ handlers[h].response.body.timestamp = 1

\* the value a body gives to each field once the defaults are resolved
Effective(body) ==
    [f \in {"top_n_stocks", "benchmark_ticker"} |->
        IF f \in Range(body.order) THEN body[f] ELSE DefaultRequest[f]]

\* C12: the cache key is a function of the normalized request.  Two requests
\* with the same field values after the defaults are resolved have the same
\* key, whatever the order of their fields and whether a value was supplied
\* or left to its default.
C12_KeyOfNormalizedRequest ==
    \A h1, h2 \in Handlers :
        (/\ handlers[h1].pc # "idle" /\ handlers[h2].pc # "idle"
         /\ Effective(handlers[h1].body) = Effective(handlers[h2].body))
            => handlers[h1].cache_key = handlers[h2].cache_key

\* one request leaves both fields to their defaults, the other supplies the
\* same values; and two requests supply the same values in opposite orders
C12_Witness ==
    \E h1, h2 \in Handlers :
        /\ handlers[h1].pc # "idle" /\ handlers[h2].pc # "idle"
        /\ handlers[h1].body.order # handlers[h2].body.order
        /\ Effective(handlers[h1].body) = Effective(handlers[h2].body)
        /\ Len(handlers[h1].body.order) = 2

\* the step is the removal of the entries by clear_cache
IsClear ==
    \/ clear_pc = "counted" /\ clear_pc' = "idle"
    \/ service = "simple" /\ handlers' = handlers /\ cache' = EmptyCache

\* the entry under key k after the step is the result of an analysis that a
\* handler has just completed with success
StoredBySuccess(k) ==
    \E h \in Handlers :
        /\ Answers(h) /\ handlers'[h].fetched
        /\ handlers'[h].cache_key = k
        /\ handlers'[h].response = Ok200(cache'[k])
        /\ cache'[k].request_params = handlers'[h].request

\* C13: cache lifecycle.  An entry appears only with the success of an
\* analysis, entries disappear only in clear_cache, and a stored payload
\* changes only when an analysis that was computed stores its result: never
\* in the step of a request that is answered from the cache.
C13_CacheLifecycle ==
    [][/\ \A k \in DOMAIN cache' \ DOMAIN cache : StoredBySuccess(k)
       /\ (DOMAIN cache \ DOMAIN cache' # {}) => IsClear
       /\ \A k \in DOMAIN cache \cap DOMAIN cache' :
             cache'[k] # cache[k] => StoredBySuccess(k)]_vars

\* two entries, and a request that was answered from one of them
C13_Witness ==
    /\ Cardinality(DOMAIN cache) = 2
    /\ \E h \in Handlers :
          /\ handlers[h].pc = "done" /\ ~handlers[h].fetched
          /\ handlers[h].response.status_code = 200

\* C14: clear_cache leaves the cache empty and reports the number of entries
\* the cache held immediately before they were removed.
C14_ClearReportsSize ==
    [][IsClear => /\ cache' = EmptyCache
                  /\ cache_size' = Cardinality(DOMAIN cache)]_vars

\* ----------------------------------------------------------- claims C25-C28
\* handler h runs `self.cache[cache_key] = result` in this step
Writes(h) == handlers[h].pc = "store" /\ handlers'[h].pc = "done"

\* h has answered a request that it computed and stored
ComputedAndStored(h) ==
    /\ handlers[h].pc = "done" /\ handlers[h].fetched
    /\ handlers[h].response.status_code = 200

\* both handlers have computed and stored under one key
BothWrote(h1, h2) ==
    /\ h1 # h2 /\ ComputedAndStored(h1) /\ ComputedAndStored(h2)
    /\ handlers[h1].cache_key = handlers[h2].cache_key

\* C25: same-key race.  Two concurrent requests with the same key that is
\* not cached can both miss, both compute and both write: each write puts
\* the writer's payload under the key and touches no other entry, and once
\* both have finished the key has one entry, the payload of one of the two.
C25_SameKeyRace ==
    /\ [][\A h \in Handlers : Writes(h) =>
              /\ DOMAIN cache' = DOMAIN cache \cup {handlers[h].cache_key}
              /\ cache'[handlers[h].cache_key] = handlers[h].result
              /\ \A k \in DOMAIN cache \ {handlers[h].cache_key} :
                     cache'[k] = cache[k]]_vars
    /\ [](\A h1, h2 \in Handlers :
              (BothWrote(h1, h2) /\ handlers[h1].cache_key \in DOMAIN cache) =>
                  /\ cache[handlers[h1].cache_key] \in
                        {handlers[h1].response.body, handlers[h2].response.body}
                  /\ Cardinality({k \in DOMAIN cache : cache[k] \in
                        {handlers[h1].response.body, handlers[h2].response.body}}) = 1)

\* the step is one of handler h's own (a clear only marks a waiting handler)
OwnStep(h) == [handlers'[h] EXCEPT !.interrupted = handlers[h].interrupted] # handlers[h]

\* C27: a failed portfolio analysis leaves the cache unchanged.  No step of a
\* request that ends with an error changes the cache (its lookup, its
\* computation, its error answer), and no entry is ever a failure or a
\* partial result: every entry is the payload of a successful analysis.
C27_FailureLeavesCache ==
    /\ [][\A h \in Handlers :
              (OwnStep(h) /\ (handlers'[h].pc \in {"hit", "miss", "store"}
                              \/ handlers'[h].response.status_code = 500))
                  => cache' = cache]_vars
    /\ [](\A k \in DOMAIN cache : cache[k].status = "success")

\* a request failed in its computation while the cache held an entry of
\* another request, and that entry is all the cache holds
C27_Witness ==
    \E h \in Handlers :
        /\ handlers[h].pc = "done" /\ handlers[h].fetched
        /\ handlers[h].response = Error500
        /\ handlers[h].cache_key \notin DOMAIN cache
        /\ Cardinality(DOMAIN cache) = 1

\* two requests with the same parameters both missed and both computed, no
\* clear ran after a write, and the entry is the payload of the later write
C25_Witness ==
    \E h1, h2 \in Handlers :
        /\ BothWrote(h1, h2)
        /\ handlers[h1].request = handlers[h2].request
        /\ handlers[h1].response.body # handlers[h2].response.body
        /\ clear_pc = "idle" /\ cache_size = 0
        /\ DOMAIN cache = {handlers[h1].cache_key}
        /\ cache[handlers[h1].cache_key] = handlers[h2].response.body
        /\ handlers[h2].response.body.timestamp = 1
\* C28: a cache hit is always for the same request.  A payload served from
\* the cache was computed for a request with the same five normalized
\* parameters as the request it is served to.
C28_HitForSameRequest ==
    [][\A h \in Handlers :
          (Answers(h) /\ ~handlers'[h].fetched
                      /\ handlers'[h].response.status_code = 200)
              => handlers'[h].response.body.request_params = handlers'[h].request]_vars
\* ------------------------------------------------------------ claim C30
\* the composition a service derives from a sentiment source for a request
ServiceComposition(svc, rows, req) ==
    get_portfolio_dates(
        filter_top_stocks(aggregate_sentiment(load_sentiment_data(rows)),
                          ProcessTopN(svc, req)))

\* len(unique_stocks) of a composition
UniqueStocks(pdates) == Cardinality(UNION {Range(pdates[i].stocks) : i \in 1..Len(pdates)})

\* C30: the Ray service and the simplified service run the same pipeline.
\* For the same request and the same sentiment data the composition a
\* service returns is the one the other service returns, with the same
\* number_of_periods and the same unique_stocks_analyzed.
C30_SamePipeline ==
    spc = "done" =>
        \A svc \in {"ray", "simple"} :
            LET other == ServiceComposition(svc, csv, request)
            IN /\ portfolio_dates = other
               /\ Len(portfolio_dates) = Len(other)
               /\ UniqueStocks(portfolio_dates) = UniqueStocks(other)

\* ------------------------------------------------------------ claim C29
\* C29: the performance series of a successful result are parallel
\* sequences.  dates, portfolio_cumulative_returns and
\* benchmark_cumulative_returns have the same length, also when the benchmark
\* has no observation on a date of the portfolio.
C29_ParallelSeries ==
    (apc = "done" /\ service \in {"ray", "simple"}) =>
        LET series == result.performance_data
        IN /\ Len(series.dates) = Len(series.portfolio_cumulative_returns)
           /\ Len(series.dates) = Len(series.benchmark_cumulative_returns)

\* ========================================== the engine's sentiment processor
\* the sources two requests may name: no record, or one qualifying record
EngineRows ==
    {[date |-> 20210131, symbol |-> sym, twitterLikes |-> 100, twitterComments |-> 30] :
        sym \in {"A", "B"}}

EngineSources == {{}} \cup {{r} : r \in EngineRows}

\* SentimentProcessor.__init__: the three frames are None; is_none names the
\* attributes that still are
NewProcessor ==
    [created |-> TRUE, is_none |-> {"sentiment_df", "aggregated_df", "filtered_df"},
     sentiment_df |-> {}, aggregated_df |-> {}, filtered_df |-> {}]

NoProcessor == [NewProcessor EXCEPT !.created = FALSE]

\* self.<attribute> = frame
SetFrame(actor, attribute, frame) ==
    [actor EXCEPT ![attribute] = frame, !.is_none = @ \ {attribute}]

\* PortfolioAPI.__init__ made one engine; two requests are on their way to
\* process_sentiment_data_sync, each on its own worker thread
EngineInit ==
    /\ service = "ray"
    /\ sentiment_processor = "None"
    /\ processors = [h \in Handlers |-> NoProcessor]
    /\ calls \in [Handlers -> {[pc |-> "start", url |-> u, ran_on |-> << >>,
                                portfolio_dates |-> "None", error |-> "None"] :
                                  u \in EngineSources}]
    /\ SentIdle /\ FetchIdle /\ PerfIdle /\ CacheIdle /\ ComposeIdle

notEngine == <<service, sentVars, fetchVars, perfVars, cacheVars, composeVars>>

\* self.sentiment_processor = SentimentProcessor.remote()
CreateProcessor(h) ==
    /\ calls[h].pc = "start"
    /\ processors' = [processors EXCEPT ![h] = NewProcessor]
    /\ sentiment_processor' = h
    /\ calls' = [calls EXCEPT ![h].pc = "created"]
    /\ UNCHANGED notEngine

\* the call goes on to its next sub-step, on the actor the attribute names now
StepOn(call, next) ==
    [call EXCEPT !.pc = next, !.ran_on = Append(call.ran_on, sentiment_processor)]

\* ray.get raises what the actor's method raised
StepFails(call, err) ==
    [call EXCEPT !.pc = "failed", !.error = err,
                 !.ran_on = Append(call.ran_on, sentiment_processor)]

\* ray.get(self.sentiment_processor.load_sentiment_data.remote(url))
LoadOnProcessor(h) ==
    /\ calls[h].pc = "created"
    /\ processors' =
                      [processors EXCEPT ![sentiment_processor] =
                          SetFrame(@, "sentiment_df",
                                   load_sentiment_data(calls[h].url))]
    /\ calls' = [calls EXCEPT ![h] = StepOn(calls[h], "loaded")]
    /\ UNCHANGED <<sentiment_processor, notEngine>>

\* ray.get(self.sentiment_processor.aggregate_sentiment.remote()): None has no
\* reset_index when the actor has loaded nothing
AggregateOnProcessor(h) ==
    /\ calls[h].pc = "loaded"
    /\ LET actor == processors[sentiment_processor]
       IN IF "sentiment_df" \in actor.is_none
          THEN /\ calls' = [calls EXCEPT ![h] = StepFails(calls[h], "AttributeError")]
               /\ UNCHANGED processors
          ELSE /\ processors' =
                      [processors EXCEPT ![sentiment_processor] =
                          SetFrame(@, "aggregated_df",
                                   aggregate_sentiment(actor.sentiment_df))]
               /\ calls' = [calls EXCEPT ![h] = StepOn(calls[h], "aggregated")]
    /\ UNCHANGED <<sentiment_processor, notEngine>>

\* ray.get(self.sentiment_processor.filter_top_stocks.remote())
FilterOnProcessor(h) ==
    /\ calls[h].pc = "aggregated"
    /\ LET actor == processors[sentiment_processor]
       IN IF "aggregated_df" \in actor.is_none
          THEN /\ calls' = [calls EXCEPT ![h] = StepFails(calls[h], "TypeError")]
               /\ UNCHANGED processors
          ELSE /\ processors' =
                      [processors EXCEPT ![sentiment_processor] =
                          SetFrame(@, "filtered_df",
                                   filter_top_stocks(actor.aggregated_df, DefaultTopN))]
               /\ calls' = [calls EXCEPT ![h] = StepOn(calls[h], "filtered")]
    /\ UNCHANGED <<sentiment_processor, notEngine>>

\* portfolio_dates = ray.get(self.sentiment_processor.get_portfolio_dates.remote())
ReadPortfolioDates(h) ==
    /\ calls[h].pc = "filtered"
    /\ LET actor == processors[sentiment_processor]
       IN IF "filtered_df" \in actor.is_none
          THEN calls' = [calls EXCEPT ![h] = StepFails(calls[h], "AttributeError")]
          ELSE calls' = [calls EXCEPT ![h] =
                            [StepOn(calls[h], "done") EXCEPT
                                !.portfolio_dates = get_portfolio_dates(actor.filtered_df)]]
    /\ UNCHANGED <<sentiment_processor, processors, notEngine>>

EngineNext ==
    \E h \in Handlers :
        \/ CreateProcessor(h)
        \/ LoadOnProcessor(h)
        \/ AggregateOnProcessor(h)
        \/ FilterOnProcessor(h)
        \/ ReadPortfolioDates(h)

SpecEngine == EngineInit /\ [][EngineNext]_vars

\* ------------------------------------------------------- claims C24, C26
\* the composition of a source on an aggregator of its own
CompositionOf(url) ==
    get_portfolio_dates(
        filter_top_stocks(aggregate_sentiment(load_sentiment_data(url)), DefaultTopN))

\* the sub-steps in the order of process_sentiment_data_sync
StepRank(pc) ==
    CASE pc = "start" -> 0
      [] pc = "created" -> 1
      [] pc = "loaded" -> 2
      [] pc = "aggregated" -> 3
      [] pc = "filtered" -> 4
      [] pc = "done" -> 5
      [] pc = "failed" -> 6

\* a call moves by one sub-step at a time, in order, or fails
InSequence(before, after) ==
    \/ after.pc = before.pc
    \/ StepRank(after.pc) = StepRank(before.pc) + 1
    \/ after.pc = "failed" /\ before.pc \in {"loaded", "aggregated", "filtered"}

OneInstance(call) == \A i, j \in 1..Len(call.ran_on) : call.ran_on[i] = call.ran_on[j]

\* C24: the sentiment sub-steps of one call run strictly in sequence on one
\* aggregator instance: load, then aggregate, then filter, then the read of
\* the composition, one at a time and all on the same instance.
C24_SequentialSubSteps ==
    /\ [](\A h \in DOMAIN calls : OneInstance(calls[h]))
    /\ [][\A h \in DOMAIN calls : InSequence(calls[h], calls'[h])]_vars

\* C26: sentiment state is isolated between concurrent requests.  Every
\* sub-step of a request runs on the aggregator created for that request,
\* none fails on an instance that has not loaded, and the composition the
\* request receives is the one of its own source.
C26_SentimentStateIsolated ==
    \A h \in DOMAIN calls :
        /\ \A i \in 1..Len(calls[h].ran_on) : calls[h].ran_on[i] = h
        /\ calls[h].pc # "failed"
        /\ calls[h].pc = "done" => calls[h].portfolio_dates = CompositionOf(calls[h].url)


\* ====================================================== concurrent batches
\* the two fan-outs side by side: a run is a price fetch or a composition of
\* the portfolio returns
ParallelInit == FetchInit \/ ComposeInit

ParallelNext == FetchNext \/ ComposeNext

SpecParallel == ParallelInit /\ [][ParallelNext]_vars

\* ------------------------------------------------------------- claim C22
\* C22: bounded fetch parallelism.  During a price fetch at most 4 batches
\* are in flight against the price source at any moment, however many
\* batches the symbol list is split into.
C22_BoundedFetchParallelism ==
    fpc = "dispatched" => Cardinality(InFlight(futures)) <= 4

\* -------------------------------------------------------- claims C21, C23
\* the result of each batch, from the answer the source gave to it
SubmittedOutcomes ==
    [i \in 1..Len(batches) |-> download_stock_batch(batches[i], responses[i])]

\* the batches whose result has rows, in the order of submission
BatchesWithData ==
    SelectSeq([i \in 1..Len(batches) |-> i], LAMBDA i : IsValidOutcome(SubmittedOutcomes[i]))

\* C21: out-of-order completion is tolerated.  The merged price table is a
\* function of the batches and of their results alone, its columns in the
\* order of submission, and the merged series is the one of a sequential run
\* over the start dates, in whatever order the batches finished.
C21_CompletionOrderIrrelevant ==
    /\ fpc = "returned" =>
          /\ combined_df = (IF service = "ray" THEN EngineCombine(SubmittedOutcomes)
                            ELSE SimpleCombine(SubmittedOutcomes)).df
          /\ combined_df.columns =
                Flatten([k \in 1..Len(BatchesWithData) |-> batches[BatchesWithData[k]]])
    /\ cpc = "done" =>
          portfolio_df = calculate_portfolio_performance(returns_df, portfolio_dates).df
    /\ cpc = "failed" => calculate_portfolio_performance(returns_df, portfolio_dates).exc

\* a fetch of three batches that finished in the order 3, 1, 2, the first and
\* the last with data
C21_Witness ==
    /\ fpc = "returned"
    /\ Len(batches) = 3
    /\ futures[3].finished = 1 /\ futures[1].finished = 2
    /\ IsValidOutcome(futures[1].outcome) /\ IsValidOutcome(futures[3].outcome)
    /\ Len(combined_df.columns) >= 2


\* every task of a fan-out that returned has finished
AllResolved(futs, n) ==
    /\ Len(futs) = n
    /\ \A i \in 1..n : futs[i].state = "done"

\* a task that started is not submitted again, one that finished keeps its
\* result, and no task is added after the dispatch
NoRetry(before, after) ==
    before # << >> =>
        /\ Len(after) = Len(before)
        /\ \A i \in 1..Len(before) :
              /\ before[i].state = "done" => after[i] = before[i]
              /\ before[i].state = "running" => after[i].state # "pending"

\* C23: no partial return and no retry.  The price fetch and the composition
\* of the returns hand their result over only when every batch they
\* dispatched has finished, and a batch is run once: a failed batch is not
\* submitted again.
C23_NoPartialReturnNoRetry ==
    /\ [](fpc \in {"returned", "raised"} => AllResolved(futures, Len(batches)))
    /\ [](cpc \in {"done", "failed"} => AllResolved(portfolio_futures, Len(window_batches)))
    /\ [][NoRetry(futures, futures') /\ NoRetry(portfolio_futures, portfolio_futures')]_vars

\* a fetch that returned after one of its three batches had failed
C23_Witness ==
    /\ fpc = "returned"
    /\ Len(batches) = 3
    /\ \E i \in 1..3 : responses[i].kind = "raise"
    /\ \E i \in 1..3 : IsValidOutcome(futures[i].outcome)

=============================================================================
